---- MODULE Spec2Model ----
(***************************************************************************)
(* VacationMonitor worker: the coordination layer.                         *)
(*   - DistributedLockService (leader election over one Cosmos DB record)  *)
(*   - SchedulerService (polling tick, circuit breaker)                    *)
(*   - JobQueueService (batch publish, peek-lock consumer)                 *)
(* Code between two awaits runs to completion on the event loop and is one *)
(* atomic step.  A call on the lock document is two steps: the request     *)
(* taking effect at the store, and the response resuming the caller.  A    *)
(* call on the searches container or the queue is one step, taken when its *)
(* response arrives.                                                       *)
(***************************************************************************)
EXTENDS Integers, Sequences, FiniteSets, TLC

\* ------------------------------------------------------------ constants

\* Worker instances (each has its own nanoid instanceId).
Inst == {"A", "B"}

\* Coroutines of one instance that can be suspended at an await:
\* two scheduler ticks (setInterval does not wait for the previous tick),
\* the lock-renewal timer callback, and stop().
TickSlots == {"t1", "t2"}
Slots == TickSlots \cup {"rt", "st"}

lockDurationSeconds == 90
lockRenewalIntervalSeconds == 30
maxConsecutiveErrors == 10

\* The clock advances in steps of one renewal interval.
ClockStep == lockRenewalIntervalSeconds
MaxClockSteps == 4
MaxTime == MaxClockSteps * ClockStep

\* How many store or queue calls may be in flight while the clock advances:
\* the calls that take a clock step or more.
MaxSlow == 1

\* Cap on the number of mutations of the lock record (also the etag source).
MaxWrites == 4

\* Transient store/queue failures injected in one run.
MaxFaults == 1

\* Poll-timer firings per instance in one clock step (the tick of start() comes on top).
MaxTicks == 1

\* Saved searches (the due work items) and the absent search document.
Items == {"s1", "s2"}
HourSeconds == 3600
DueLimit == 50
\* The limit of the due query scaled to the two modelled searches.
PageLimit == Cardinality(Items) - 1
NoSearch == [exists |-> FALSE, isActive |-> FALSE, enabled |-> FALSE, nextRun |-> 0,
             intervalHours |-> 0, lastRunAt |-> -1]

\* Cap on the messages ever published to the queue.
MaxMessages == 3

\* Calls of stop() on one instance in one run.
MaxStops == 2

\* The absent lock document / an empty cached lock (this.currentLock = null).
\* prev and from are no fields of the document: they remember the document
\* version that the acquireLock() which wrote this one had read, its etag
\* (0 = no document) and its owner.
NoLock == [instanceId |-> "none", acquiredAt |-> 0, expiresAt |-> 0, etag |-> 0,
           prev |-> 0, from |-> "none"]

\* A coroutine slot: where it is suspended (pc), the `now` it captured, the lock
\* document it carries (read result, snapshot of currentLock, or write result),
\* the response code of the call it awaits, and whether it is the tick that
\* start() awaits.
\* A tick also carries the ids of the due searches its query returned (due) and
\* the documents as returned (snap), the `now` it took after the publish (sched)
\* and one updateSearch() task per due search (upd: where the task is, ex: the
\* document its getSearch() read).  (after notes the searches whose scheduling
\* had been persisted when the tick called the due query.)
IdleCo == [pc |-> "idle", now |-> 0, rec |-> NoLock, res |-> "none", first |-> FALSE,
           stale |-> FALSE, after |-> {},
           due |-> << >>, snap |-> [x \in Items |-> NoSearch], sched |-> 0,
           upd |-> [x \in Items |-> "none"], ex |-> [x \in Items |-> NoSearch]]

\* JobQueueService before initialize(), after createReceiver(), after close().
NoConn == [client |-> "none", sender |-> "none", receiver |-> "none"]
OpenConn == [client |-> "open", sender |-> "open", receiver |-> "open"]
ClosedConn == [client |-> "closed", sender |-> "closed", receiver |-> "closed"]

\* No error; error messages are sequences of characters.
NoErr == << >>

\* The consumer of an instance between two deliveries.
IdleJob == [pc |-> "idle", m |-> 0, now |-> 0, ex |-> NoSearch, err |-> NoErr]

\* No scheduling of a search persisted yet: at is the scheduling instant, ih the
\* intervalHours used, done the time the update was persisted.
NoSched == [at |-> -1, ih |-> 0, done |-> -1]

\* The delay of the forced exit armed by handleShutdown(), in seconds.
ShutdownTimeoutSeconds == 30

\* A process that has received no signal: gracefulShutdownInProgress is false,
\* no shutdown timeout is armed (timeoutAt = -1), worker.stop() has not been
\* called (pc), the process has not exited (exitCode = -1).
NoShutdown == [inProgress |-> FALSE, timeoutAt |-> -1, pc |-> "none", exitCode |-> -1]

VARIABLES
  now,                \* wall clock, seconds
  lockDoc,            \* the 'scheduler-lock' document in the locks container
  storeSeq,           \* mutations of the lock document so far; the next etag
  faults,             \* transient store/queue failures still to be injected
  ticksLeft,          \* ticksLeft[i]: poll-timer firings of instance i left in this clock step
  crashed,            \* crashed[i]: the process of instance i is gone
  schedulerEnabled,   \* schedulerEnabled[i]: SCHEDULER_ENABLED of instance i is not 'false'
  stopCalls,          \* stopCalls[i]: calls of SchedulerService.stop() on instance i so far
  shutdown,           \* shutdown[i]: handleShutdown() of the process of instance i
  roundTrip,          \* the URL round trip: original URL, criteria, rebuilt URL, criteria
  currentLock,        \* DistributedLockService.currentLock
  renewalIntervalId,  \* DistributedLockService.renewalIntervalId (armed or null)
  renewDue,           \* when the renewal timer fires next
  isRunning,          \* SchedulerService.isRunning
  intervalId,         \* SchedulerService.intervalId (armed or null)
  consecutiveErrors,  \* SchedulerService.consecutiveErrors
  lastTickTime,       \* SchedulerService.lastTickTime (-1 = null)
  startPc,            \* position of SchedulerService.start()
  co,                 \* co[i][s]: the suspended coroutine in slot s of instance i
  searches,           \* searches[x]: the search documents in the searches container
  queue,              \* the Service Bus queue: the messages sent so far, in order
  qconn,              \* qconn[i]: JobQueueService client / sender / receiver of instance i
  job,                \* job[i]: the message delivery instance i is processing
  lastSched           \* lastSched[x]: the last scheduling of search x that was persisted

vars == <<now, lockDoc, storeSeq, faults, ticksLeft, crashed, schedulerEnabled, stopCalls,
          shutdown, roundTrip, currentLock, renewalIntervalId,
          renewDue, isRunning, intervalId, consecutiveErrors, lastTickTime,
          startPc, co, searches, queue, qconn, job, lastSched>>

dataVars == <<searches, queue, qconn, job, lastSched>>
itemVars == <<searches, lastSched>>

allButRoundTrip ==
  <<now, lockDoc, storeSeq, faults, ticksLeft, crashed, schedulerEnabled, stopCalls, shutdown,
    currentLock, renewalIntervalId, renewDue, isRunning, intervalId, consecutiveErrors,
    lastTickTime, startPc, co, searches, queue, qconn, job, lastSched>>

procVars == <<crashed, schedulerEnabled, stopCalls, shutdown, roundTrip>>
envVars == <<now, ticksLeft, procVars>>
storeVars == <<lockDoc, storeSeq>>
timerVars == <<renewalIntervalId, renewDue>>
lockVars == <<currentLock, renewalIntervalId, renewDue>>
runVars == <<isRunning, consecutiveErrors, lastTickTime>>


\* ------------------------------------------------------------ helpers

Resume(i, s, c) == co' = [co EXCEPT ![i][s] = c]

Alive(i) == ~crashed[i]

\* A request that has not yet reached the service.
Pending(i, s, p) == Alive(i) /\ co[i][s].pc = p /\ co[i][s].res = "none"
\* A response that has not yet resumed the caller.
Answered(i, s, p) == Alive(i) /\ co[i][s].pc = p /\ co[i][s].res # "none"

\* An updateSearch() task is in flight in this slot.
UpdBusy(c) == \E x \in Items : c.upd[x] \in {"read", "write"}

\* A slot whose tick has returned and whose updates have all ended is free again.
Rest(c) == IF c.pc = "idle" /\ ~UpdBusy(c) THEN IdleCo ELSE c

\* ------------------------------------------------------------ lock store (Cosmos DB)

\* Variant: no expiry test; a lock record is only ever freed by its release.
isExpiredNever(existing, t) == FALSE

\* Variant: a lock counts as expired already at the instant it expires.
isExpiredAtExpiry(existing, t) == existing.expiresAt <= t

\* Variant: every lock record read counts as expired.
isExpiredAlways(existing, t) == TRUE

\* new Date(existingLock.expiresAt) < now
isExpired(existing, t) == existing.expiresAt < t

\* Variant: acquireLock() does not recognise its own record.
alreadyHeldNever(existing, i, t) == FALSE

\* existingLock.instanceId === this.instanceId && !isExpired
alreadyHeld(existing, i, t) == existing.instanceId = i /\ ~isExpired(existing, t)

\* Variant: the create does not fail on an existing document.
CreateUnconditional(doc) == TRUE

\* items.create(doc): 409 when a document with that id exists.
CreateAllowed(doc) == doc = NoLock

\* Variant: the upsert carries no condition.
UpsertUnconditional(doc, etag) == TRUE

\* items.upsert(doc, IfMatch etag): inserts when no document exists, otherwise
\* replaces only when the stored _etag equals the condition (else 412).
UpsertAllowed(doc, etag) == doc = NoLock \/ doc.etag = etag

\* Variant: the delete carries no condition.
DeleteUnconditional(doc, etag) == IF doc = NoLock THEN "404" ELSE "ok"

\* item.delete(IfMatch etag): 404 when absent, 412 on another _etag.
DeleteResult(doc, etag) ==
  IF doc = NoLock THEN "404" ELSE IF doc.etag = etag THEN "ok" ELSE "412"

\* The document acquireLock() writes (lockDoc in the source), as stored with its
\* new etag; read is the document version the call had read.
NewLockDoc(i, t, etag, read) ==
  [instanceId |-> i, acquiredAt |-> t, expiresAt |-> t + lockDurationSeconds,
   etag |-> etag, prev |-> read.etag, from |-> read.instanceId]

\* The document renewLock() writes: {...this.currentLock, expiresAt, renewedAt}.
RenewedDoc(cur, t, etag) ==
  [cur EXCEPT !.expiresAt = t + lockDurationSeconds, !.etag = etag]

\* ------------------------------------------------------------ DistributedLockService

\* startRenewalTimer(): a no-op when the timer is already armed.
startRenewalTimer(i) ==
  /\ renewalIntervalId' = [renewalIntervalId EXCEPT ![i] = TRUE]
  /\ renewDue' = IF renewalIntervalId[i] THEN renewDue
                 ELSE [renewDue EXCEPT ![i] = now + lockRenewalIntervalSeconds]

\* stopRenewalTimer()
stopRenewalTimer(i) ==
  /\ renewalIntervalId' = [renewalIntervalId EXCEPT ![i] = FALSE]
  /\ renewDue' = [renewDue EXCEPT ![i] = 0]

\* The tick in slot s returns.  When it is the tick start() awaits, start()
\* resumes and arms the poll timer; iv is intervalId as the tick left it.
TickEnd(i, s, c, iv) ==
  /\ Resume(i, s, IF UpdBusy(c)
                  THEN [IdleCo EXCEPT !.upd = c.upd, !.ex = c.ex, !.sched = c.sched,
                                      !.due = c.due, !.snap = c.snap]
                  ELSE IdleCo)
  /\ intervalId' = [intervalId EXCEPT ![i] = IF c.first THEN TRUE ELSE iv]
  /\ startPc' = IF c.first THEN [startPc EXCEPT ![i] = "done"] ELSE startPc

\* acquireLock() returns ok to tick(): on false the tick returns, on true it calls
\* getDueSearches(), which takes its own `now` and awaits the query.
AfterAcquire(i, s, c, ok) ==
  IF ok
  THEN /\ Resume(i, s, [c EXCEPT !.pc = "query", !.res = "none", !.rec = NoLock, !.now = now,
                              !.after = {x \in Items : lastSched[x].ih > 0}])
       /\ UNCHANGED <<intervalId, startPc>>
  ELSE TickEnd(i, s, c, intervalId[i])

\* The read of the lock document reaches the store.
AcqReadReq(i, s) ==
  /\ Pending(i, s, "acq_read")
  /\ Resume(i, s, [co[i][s] EXCEPT !.res = IF lockDoc = NoLock THEN "404" ELSE "ok",
                                   !.rec = lockDoc])
  /\ UNCHANGED <<envVars, storeVars, faults, lockVars, runVars, intervalId, startPc, dataVars>>

\* acquireLock() resumes after the read.
AcqReadResp(i, s) ==
  /\ Answered(i, s, "acq_read")
  /\ LET c == co[i][s] IN
     IF c.res = "ok" /\ alreadyHeld(c.rec, i, c.now)
     THEN \* already ours: cache it and return true (no write, no timer)
          /\ currentLock' = [currentLock EXCEPT ![i] = c.rec]
          /\ AfterAcquire(i, s, c, TRUE)
          /\ UNCHANGED timerVars
     ELSE IF c.res = "ok" /\ ~isExpired(c.rec, c.now)
     THEN \* held by another instance
          /\ AfterAcquire(i, s, c, FALSE)
          /\ UNCHANGED lockVars
     ELSE IF c.res = "ok"
     THEN \* expired: take over with IfMatch on the etag just read
          /\ Resume(i, s, [c EXCEPT !.pc = "acq_upsert", !.res = "none"])
          /\ UNCHANGED <<lockVars, intervalId, startPc>>
     ELSE IF c.res = "404"
     THEN /\ Resume(i, s, [c EXCEPT !.pc = "acq_create", !.res = "none"])
          /\ UNCHANGED <<lockVars, intervalId, startPc>>
     ELSE \* any other error: logged, return false
          /\ AfterAcquire(i, s, c, FALSE)
          /\ UNCHANGED lockVars
  /\ UNCHANGED <<envVars, storeVars, faults, runVars, dataVars>>

\* The takeover upsert reaches the store.
AcqUpsertReq(i, s) ==
  /\ Pending(i, s, "acq_upsert")
  /\ LET c == co[i][s]
         d == NewLockDoc(i, c.now, storeSeq + 1, c.rec) IN
     IF UpsertAllowed(lockDoc, c.rec.etag)
     THEN /\ storeSeq < MaxWrites
          /\ storeSeq' = storeSeq + 1
          /\ lockDoc' = d
          /\ Resume(i, s, [c EXCEPT !.res = "ok", !.rec = d])
     ELSE /\ Resume(i, s, [c EXCEPT !.res = "412"])
          /\ UNCHANGED storeVars
  /\ UNCHANGED <<envVars, faults, lockVars, runVars, intervalId, startPc, dataVars>>

\* The create reaches the store.
AcqCreateReq(i, s) ==
  /\ Pending(i, s, "acq_create")
  /\ LET c == co[i][s]
         d == NewLockDoc(i, c.now, storeSeq + 1, c.rec) IN
     IF CreateAllowed(lockDoc)
     THEN /\ storeSeq < MaxWrites
          /\ storeSeq' = storeSeq + 1
          /\ lockDoc' = d
          /\ Resume(i, s, [c EXCEPT !.res = "ok", !.rec = d])
     ELSE /\ Resume(i, s, [c EXCEPT !.res = "409"])
          /\ UNCHANGED storeVars
  /\ UNCHANGED <<envVars, faults, lockVars, runVars, intervalId, startPc, dataVars>>

\* Variant: a store error of the upsert or create leaves acquireLock() as an
\* exception, which tick() catches.
AcqWriteRespThrows(i, s) ==
  /\ Answered(i, s, "acq_upsert") \/ Answered(i, s, "acq_create")
  /\ LET c == co[i][s] IN
     IF c.res = "ok"
     THEN /\ currentLock' = [currentLock EXCEPT ![i] = c.rec]
          /\ startRenewalTimer(i)
          /\ AfterAcquire(i, s, c, TRUE)
          /\ UNCHANGED <<runVars, qconn>>
     ELSE IF c.res = "err"
     THEN /\ consecutiveErrors' = [consecutiveErrors EXCEPT ![i] = @ + 1]
          /\ TickEnd(i, s, c, intervalId[i])
          /\ UNCHANGED <<lockVars, isRunning, lastTickTime, qconn>>
     ELSE /\ AfterAcquire(i, s, c, FALSE)
          /\ UNCHANGED <<lockVars, runVars, qconn>>
  /\ UNCHANGED <<envVars, storeVars, faults, searches, queue, job, lastSched>>

\* acquireLock() resumes after its upsert or create.
AcqWriteResp(i, s) ==
  /\ Answered(i, s, "acq_upsert") \/ Answered(i, s, "acq_create")
  /\ LET c == co[i][s] IN
     IF c.res = "ok"
     THEN /\ currentLock' = [currentLock EXCEPT ![i] = c.rec]
          /\ startRenewalTimer(i)
          /\ AfterAcquire(i, s, c, TRUE)
     ELSE \* 409 / 412: lost the race; anything else: logged; all return false
          /\ AfterAcquire(i, s, c, FALSE)
          /\ UNCHANGED lockVars
  /\ UNCHANGED <<envVars, storeVars, faults, runVars, dataVars>>

\* Instance j has taken over the lock of instance i and holds it in the store,
\* or has just released (deleted) it.
TakenOverBy(i, j) ==
  \/ lockDoc.instanceId = j /\ lockDoc.from = i
  \/ /\ lockDoc = NoLock
     /\ co[j]["st"].pc = "rel" /\ co[j]["st"].res = "ok" /\ co[j]["st"].rec.from = i

\* renewLock() is called with a cached lock: it snapshots currentLock and `now`
\* and awaits the conditional upsert.  (stale notes whether the cached version
\* is at this moment no longer the stored one because of a takeover.)
RenewCall(i, s, c) ==
  Resume(i, s, [c EXCEPT !.pc = "renew", !.res = "none", !.rec = currentLock[i], !.now = now,
                         !.stale = /\ currentLock[i].etag # lockDoc.etag
                                   /\ \E j \in Inst \ {i} : TakenOverBy(i, j)])

\* The renewal upsert reaches the store.
RenewReq(i, s) ==
  /\ Pending(i, s, "renew")
  /\ LET c == co[i][s]
         d == RenewedDoc(c.rec, c.now, storeSeq + 1) IN
     IF UpsertAllowed(lockDoc, c.rec.etag)
     THEN /\ storeSeq < MaxWrites
          /\ storeSeq' = storeSeq + 1
          /\ lockDoc' = d
          /\ Resume(i, s, [c EXCEPT !.res = "ok", !.rec = d])
     ELSE /\ Resume(i, s, [c EXCEPT !.res = "412"])
          /\ UNCHANGED storeVars
  /\ UNCHANGED <<envVars, faults, lockVars, runVars, intervalId, startPc, dataVars>>

\* (variant of RenewResp in which a version mismatch leaves the cached lock and
\* the renewal timer as they were)
RenewRespKeepsLock(i, s) ==
  /\ Answered(i, s, "renew")
  /\ LET c == co[i][s] IN
     /\ currentLock' = [currentLock EXCEPT ![i] = IF c.res = "ok" THEN c.rec ELSE @]
     /\ IF s = "rt" /\ c.res \notin {"ok", "412"}
        THEN stopRenewalTimer(i)
        ELSE UNCHANGED timerVars
     /\ IF s \in TickSlots
        THEN TickEnd(i, s, c, intervalId[i])
        ELSE Resume(i, s, IdleCo) /\ UNCHANGED <<intervalId, startPc>>
  /\ UNCHANGED <<envVars, storeVars, faults, runVars, dataVars>>

\* renewLock() resumes; then its caller: the tick returns, the timer callback
\* stops the timer when the renewal did not succeed.
RenewResp(i, s) ==
  /\ Answered(i, s, "renew")
  /\ LET c == co[i][s] IN
     /\ currentLock' = [currentLock EXCEPT ![i] =
                           IF c.res = "ok" THEN c.rec
                           ELSE IF c.res = "412" THEN NoLock ELSE @]
     /\ IF c.res = "412" \/ (s = "rt" /\ c.res # "ok")
        THEN stopRenewalTimer(i)
        ELSE UNCHANGED timerVars
     /\ IF s \in TickSlots
        THEN TickEnd(i, s, c, intervalId[i])
        ELSE Resume(i, s, IdleCo) /\ UNCHANGED <<intervalId, startPc>>
  /\ UNCHANGED <<envVars, storeVars, faults, runVars, dataVars>>

\* The setInterval callback of startRenewalTimer() fires.
RenewTimerFire(i) ==
  /\ Alive(i) /\ renewalIntervalId[i] /\ now >= renewDue[i]
  /\ IF co[i]["rt"].pc # "idle"
     THEN \* the previous callback is still awaiting its upsert
          /\ renewDue' = [renewDue EXCEPT ![i] = @ + lockRenewalIntervalSeconds]
          /\ UNCHANGED <<co, renewalIntervalId>>
     ELSE IF currentLock[i] = NoLock
     THEN \* renewLock() returns false at once
          /\ stopRenewalTimer(i)
          /\ UNCHANGED co
     ELSE /\ RenewCall(i, "rt", IdleCo)
          /\ renewDue' = [renewDue EXCEPT ![i] = @ + lockRenewalIntervalSeconds]
          /\ UNCHANGED renewalIntervalId
  /\ UNCHANGED <<envVars, storeVars, faults, currentLock, runVars, intervalId, startPc, dataVars>>

\* The conditional delete of releaseLock() reaches the store.
RelReq(i, s) ==
  /\ Pending(i, s, "rel")
  /\ LET c == co[i][s]
         r == DeleteResult(lockDoc, c.rec.etag) IN
     /\ Resume(i, s, [c EXCEPT !.res = r])
     /\ IF r = "ok"
        THEN storeSeq < MaxWrites /\ storeSeq' = storeSeq + 1 /\ lockDoc' = NoLock
        ELSE UNCHANGED storeVars
  /\ UNCHANGED <<envVars, faults, lockVars, runVars, intervalId, startPc, dataVars>>

\* releaseLock() resumes: the cached lock is cleared on success and on every error.
\* In stop() the close of the queue connections follows.
RelResp(i, s) ==
  /\ Answered(i, s, "rel")
  /\ currentLock' = [currentLock EXCEPT ![i] = NoLock]
  /\ IF s \in TickSlots
     THEN TickEnd(i, s, co[i][s], intervalId[i])
     ELSE Resume(i, s, [IdleCo EXCEPT !.pc = "close"]) /\ UNCHANGED <<intervalId, startPc>>
  /\ UNCHANGED <<envVars, storeVars, faults, timerVars, runVars, dataVars>>

\* isLockHeld()
isLockHeld(i) == currentLock[i] # NoLock /\ currentLock[i].expiresAt > now

\* ------------------------------------------------------------ CosmosDBService (searches)

Min(a, b) == IF a <= b THEN a ELSE b

\* WHERE c.isActive = true AND c.schedule.enabled = true AND c.schedule.nextRun <= @now
IsDue(d, t) == d.exists /\ d.isActive /\ d.enabled /\ d.nextRun <= t

DueSet(t) == {x \in Items : IsDue(searches[x], t)}

\* Variant: the query has no ORDER BY; any `limit` due searches in any order.
getDueSearchesUnordered(t, limit) ==
  LET n == Min(limit, Cardinality(DueSet(t))) IN
  {q \in [1..n -> DueSet(t)] : \A a, b \in 1..n : a < b => q[a] # q[b]}

\* getDueSearches(limit): the due searches ORDER BY nextRun ASC, the first `limit`
\* of them; documents with equal nextRun come in either order.
getDueSearches(t, limit) ==
  LET n == Min(limit, Cardinality(DueSet(t))) IN
  {q \in [1..n -> DueSet(t)] :
     /\ \A a, b \in 1..n : a < b => q[a] # q[b] /\ searches[q[a]].nextRun <= searches[q[b]].nextRun
     /\ \A x \in DueSet(t) : (\A a \in 1..n : q[a] # x) =>
                             \A a \in 1..n : searches[q[a]].nextRun <= searches[x].nextRun}

\* Variant: nextRun is advanced from the stored nextRun, not from the
\* scheduling instant.
ScheduledDocFromNextRun(existing, snapshot, t) ==
  [existing EXCEPT !.enabled = snapshot.enabled,
                   !.intervalHours = snapshot.intervalHours,
                   !.nextRun = snapshot.nextRun + snapshot.intervalHours * HourSeconds,
                   !.lastRunAt = t]

\* What updateSearch(id, userId, {schedule: {...search.schedule, nextRun}, lastRunAt})
\* upserts in tick(): the document it read, with the schedule of the query's
\* snapshot, nextRun = now + intervalHours and lastRunAt = now.
\* Variant: the update of a scheduled search leaves nextRun as it was.
ScheduledDocKeepsNextRun(existing, snapshot, t) ==
  [existing EXCEPT !.enabled = snapshot.enabled,
                   !.intervalHours = snapshot.intervalHours,
                   !.lastRunAt = t]

ScheduledDoc(existing, snapshot, t) ==
  [existing EXCEPT !.enabled = snapshot.enabled,
                   !.intervalHours = snapshot.intervalHours,
                   !.nextRun = t + snapshot.intervalHours * HourSeconds,
                   !.lastRunAt = t]

\* What updateSearch(id, userId, {lastRunAt}) upserts in processJob().
ProcessedDoc(existing, t) == [existing EXCEPT !.lastRunAt = t]

\* ------------------------------------------------------------ JobQueueService (publish)

\* enqueueBatch(jobs): one message per job, sessionId = job.searchId.  The
\* fields settled, threw and err are no part of the message: they record the
\* settlement calls (complete / abandon) made for its current delivery, those
\* of them that threw, and the error its handler threw.
JobMessages(due) ==
  [k \in 1..Len(due) |->
     [sessionId |-> due[k], searchId |-> due[k], scheduleType |-> "scheduled",
      state |-> "queued", settled |-> {}, threw |-> {}, err |-> << >>]]

\* ------------------------------------------------------------ SchedulerService

\* The variables a tick's continuation decides.
tickVars == <<isRunning, consecutiveErrors, lastTickTime, co, intervalId, startPc,
              renewalIntervalId, renewDue, qconn>>

\* Variant: the breaker trips only when the counter exceeds maxConsecutiveErrors.
TickCatchLate(i, s, c) ==
  LET n == consecutiveErrors[i] + 1
      trip == n > maxConsecutiveErrors IN
  /\ consecutiveErrors' = [consecutiveErrors EXCEPT ![i] = n]
  /\ isRunning' = IF trip THEN [isRunning EXCEPT ![i] = FALSE] ELSE isRunning
  /\ UNCHANGED <<lastTickTime, qconn>>
  /\ IF trip /\ currentLock[i] # NoLock
     THEN /\ stopRenewalTimer(i)
          /\ Resume(i, s, [c EXCEPT !.pc = "rel", !.res = "none", !.rec = currentLock[i]])
          /\ intervalId' = [intervalId EXCEPT ![i] = FALSE]
          /\ UNCHANGED startPc
     ELSE /\ TickEnd(i, s, [c EXCEPT !.pc = "idle"], IF trip THEN FALSE ELSE intervalId[i])
          /\ UNCHANGED timerVars

\* Variant: the tripping tick shuts the whole process down, queue included.
TickCatchClosing(i, s, c) ==
  LET n == consecutiveErrors[i] + 1
      trip == n >= maxConsecutiveErrors IN
  /\ consecutiveErrors' = [consecutiveErrors EXCEPT ![i] = n]
  /\ isRunning' = IF trip THEN [isRunning EXCEPT ![i] = FALSE] ELSE isRunning
  /\ qconn' = IF trip THEN [qconn EXCEPT ![i] = ClosedConn] ELSE qconn
  /\ UNCHANGED lastTickTime
  /\ IF trip /\ currentLock[i] # NoLock
     THEN /\ stopRenewalTimer(i)
          /\ Resume(i, s, [c EXCEPT !.pc = "rel", !.res = "none", !.rec = currentLock[i]])
          /\ intervalId' = [intervalId EXCEPT ![i] = FALSE]
          /\ UNCHANGED startPc
     ELSE /\ TickEnd(i, s, [c EXCEPT !.pc = "idle"], IF trip THEN FALSE ELSE intervalId[i])
          /\ UNCHANGED timerVars

\* The catch block of tick(): count the failure and trip the circuit breaker at
\* maxConsecutiveErrors (stop, cancel the poll timer, releaseLock()).
TickCatch(i, s, c) ==
  LET n == consecutiveErrors[i] + 1
      trip == n >= maxConsecutiveErrors IN
  /\ consecutiveErrors' = [consecutiveErrors EXCEPT ![i] = n]
  /\ isRunning' = IF trip THEN [isRunning EXCEPT ![i] = FALSE] ELSE isRunning
  /\ UNCHANGED <<lastTickTime, qconn>>
  /\ IF trip /\ currentLock[i] # NoLock
     THEN \* releaseLock(): stop the renewal timer, await the conditional delete
          /\ stopRenewalTimer(i)
          /\ Resume(i, s, [c EXCEPT !.pc = "rel", !.res = "none", !.rec = currentLock[i]])
          /\ intervalId' = [intervalId EXCEPT ![i] = FALSE]
          /\ UNCHANGED startPc
     ELSE /\ TickEnd(i, s, [c EXCEPT !.pc = "idle"], IF trip THEN FALSE ELSE intervalId[i])
          /\ UNCHANGED timerVars

\* Variant: the end of a tick leaves the failure counter as it is.
TickDoneKeepsCount(i, s, c) ==
  /\ lastTickTime' = [lastTickTime EXCEPT ![i] = now]
  /\ UNCHANGED <<isRunning, consecutiveErrors, qconn, timerVars>>
  /\ IF currentLock[i] = NoLock
     THEN TickEnd(i, s, [c EXCEPT !.pc = "idle"], intervalId[i])
     ELSE RenewCall(i, s, c) /\ UNCHANGED <<intervalId, startPc>>

\* The end of a tick that found nothing due or updated every due search:
\* reset the failure counter, stamp lastTickTime, renewLock().
TickDone(i, s, c) ==
  /\ consecutiveErrors' = [consecutiveErrors EXCEPT ![i] = 0]
  /\ lastTickTime' = [lastTickTime EXCEPT ![i] = now]
  /\ UNCHANGED <<isRunning, qconn, timerVars>>
  /\ IF currentLock[i] = NoLock
     THEN TickEnd(i, s, [c EXCEPT !.pc = "idle"], intervalId[i])
     ELSE RenewCall(i, s, c) /\ UNCHANGED <<intervalId, startPc>>

\* The poll timer fires and calls tick(); a tick of a stopped scheduler returns
\* at once, a running one calls acquireLock(), which takes `now` and reads the
\* lock document.
TimerTick(i, s) ==
  /\ Alive(i) /\ intervalId[i] /\ ticksLeft[i] > 0
  /\ co[i][s].pc = "idle" /\ ~UpdBusy(co[i][s])
  /\ ticksLeft' = [ticksLeft EXCEPT ![i] = @ - 1]
  /\ IF isRunning[i]
     THEN Resume(i, s, [IdleCo EXCEPT !.pc = "acq_read", !.now = now])
     ELSE UNCHANGED co
  /\ UNCHANGED <<now, procVars, storeVars, faults, lockVars, runVars, intervalId, startPc, dataVars>>

\* getDueSearches(limit) answers the tick.
QueryRespWith(i, s, limit) ==
  /\ Pending(i, s, "query")
  /\ LET c == co[i][s] IN
     \E q \in getDueSearches(c.now, limit) :
        IF Len(q) = 0
        THEN TickDone(i, s, c)
        ELSE /\ Resume(i, s, [c EXCEPT !.pc = "publish", !.due = q,
                                       !.snap = [x \in Items |->
                                                   IF \E k \in 1..Len(q) : q[k] = x
                                                   THEN searches[x] ELSE NoSearch]])
             /\ UNCHANGED <<runVars, intervalId, startPc, timerVars, qconn>>
  /\ UNCHANGED <<envVars, storeVars, faults, currentLock, searches, queue, job, lastSched>>

\* getDueSearches(50) answers.
QueryResp(i, s) == QueryRespWith(i, s, DueLimit)

\* The same with the limit scaled to the number of modelled searches, so that
\* more searches can be due than one query returns.
QueryRespPaged(i, s) == QueryRespWith(i, s, PageLimit)

\* Variant: an updateSearch() is started for every search, due or not.
UpdatesForAll(due) == [x \in Items |-> "read"]

\* dueSearches.map(...): one updateSearch() per search the query returned, each
\* of them about to read its search.
UpdatesFor(due) ==
  [x \in Items |-> IF \E k \in 1..Len(due) : due[k] = x THEN "read" ELSE "none"]

\* enqueueBatch(jobs) answers: the batch is in the queue.  tick() takes `now`
\* and starts one updateSearch() per due search, each of which first reads
\* the search.  Sending on a closed sender throws.
PublishResp(i, s) ==
  /\ Pending(i, s, "publish")
  /\ LET c == co[i][s] IN
     IF qconn[i].sender = "open"
     THEN /\ Len(queue) + Len(c.due) <= MaxMessages
          /\ queue' = queue \o JobMessages(c.due)
          /\ Resume(i, s, [c EXCEPT !.pc = "update", !.sched = now, !.upd = UpdatesFor(c.due)])
          /\ UNCHANGED <<runVars, intervalId, startPc, timerVars, qconn>>
     ELSE /\ TickCatch(i, s, c)
          /\ UNCHANGED queue
  /\ UNCHANGED <<envVars, storeVars, faults, currentLock, searches, job, lastSched>>

\* One updateSearch() of tick(): its getSearch() answers.  A missing search
\* makes it throw 'Search not found', which rejects the Promise.all the tick
\* awaits; the other updates go on.
UpdRead(i, s, x) ==
  /\ Alive(i) /\ co[i][s].upd[x] = "read"
  /\ LET c == co[i][s] IN
     IF searches[x].exists
     THEN /\ Resume(i, s, [c EXCEPT !.upd[x] = "write", !.ex[x] = searches[x]])
          /\ UNCHANGED <<runVars, intervalId, startPc, timerVars, qconn>>
     ELSE IF c.pc = "update"
     THEN TickCatch(i, s, [c EXCEPT !.upd[x] = "failed"])
     ELSE /\ Resume(i, s, Rest([c EXCEPT !.upd[x] = "failed"]))
          /\ UNCHANGED <<runVars, intervalId, startPc, timerVars, qconn>>
  /\ UNCHANGED <<envVars, storeVars, faults, currentLock, searches, queue, job, lastSched>>

\* One updateSearch() of tick(): its upsert answers; the tick goes on when it
\* was the last one.
UpdWrite(i, s, x) ==
  /\ Alive(i) /\ co[i][s].upd[x] = "write"
  /\ LET c == co[i][s]
         c2 == [c EXCEPT !.upd[x] = "done"]
         snap == c.snap[x] IN
     /\ searches' = [searches EXCEPT ![x] = ScheduledDoc(c.ex[x], snap, c.sched)]
     /\ lastSched' = [lastSched EXCEPT ![x] = [at |-> c.sched, ih |-> snap.intervalHours,
                                               done |-> now]]
     /\ IF c.pc = "update" /\ ~UpdBusy(c2)
        THEN TickDone(i, s, c2)
        ELSE /\ Resume(i, s, Rest(c2))
             /\ UNCHANGED <<runVars, intervalId, startPc, timerVars, qconn>>
  /\ UNCHANGED <<envVars, storeVars, faults, currentLock, queue, job>>
\* A store or queue call of a tick fails with a transient error: the query or
\* the publish throws into the tick's catch block.
CallFault(i, s) ==
  /\ faults > 0
  /\ Pending(i, s, "query") \/ Pending(i, s, "publish")
  /\ faults' = faults - 1
  /\ TickCatch(i, s, co[i][s])
  /\ UNCHANGED <<envVars, storeVars, currentLock, searches, queue, job, lastSched>>

\* Variant: a failed updateSearch() undoes the scheduling of the searches the
\* tick has already updated.
UpdFaultRollsBack(i, s, x) ==
  /\ faults > 0
  /\ Alive(i) /\ co[i][s].upd[x] \in {"read", "write"}
  /\ faults' = faults - 1
  /\ searches' = [y \in Items |-> IF co[i][s].upd[y] = "done" THEN co[i][s].snap[y]
                                  ELSE searches[y]]
  /\ LET c == [co[i][s] EXCEPT !.upd[x] = "failed"] IN
     IF c.pc = "update"
     THEN TickCatch(i, s, c)
     ELSE /\ Resume(i, s, Rest(c))
          /\ UNCHANGED <<runVars, intervalId, startPc, timerVars, qconn>>
  /\ UNCHANGED <<envVars, storeVars, currentLock, queue, job, lastSched>>

\* A store call of one updateSearch() of tick() fails with a transient error.
UpdFault(i, s, x) ==
  /\ faults > 0
  /\ Alive(i) /\ co[i][s].upd[x] \in {"read", "write"}
  /\ faults' = faults - 1
  /\ LET c == [co[i][s] EXCEPT !.upd[x] = "failed"] IN
     IF c.pc = "update"
     THEN TickCatch(i, s, c)
     ELSE /\ Resume(i, s, Rest(c))
          /\ UNCHANGED <<runVars, intervalId, startPc, timerVars, qconn>>
  /\ UNCHANGED <<envVars, storeVars, currentLock, searches, queue, job, lastSched>>

\* A call on the lock document fails with a transient error (no effect at the
\* store): the caller resumes with an error that is neither 404, 409 nor 412.
LockFault(i, s) ==
  /\ faults > 0
  /\ \E p \in {"acq_read", "acq_upsert", "acq_create", "renew", "rel"} : Pending(i, s, p)
  /\ faults' = faults - 1
  /\ Resume(i, s, [co[i][s] EXCEPT !.res = "err"])
  /\ UNCHANGED <<envVars, storeVars, lockVars, runVars, intervalId, startPc, dataVars>>

\* PriceMonitorWorker.start(): the queue client, sender and receiver are set up,
\* then SchedulerService.start() begins to initialize its services.
WorkerStart(i) ==
  /\ Alive(i) /\ startPc[i] = "new"
  /\ startPc' = [startPc EXCEPT ![i] = "init"]
  /\ qconn' = [qconn EXCEPT ![i] = OpenConn]
  /\ UNCHANGED <<envVars, storeVars, faults, lockVars, runVars, intervalId, co,
                 searches, queue, job, lastSched>>

\* Variant: start() ignores SCHEDULER_ENABLED and starts the scheduler.
StartDisabledIgnored(i) ==
  /\ Alive(i) /\ startPc[i] = "init" /\ ~isRunning[i] /\ ~schedulerEnabled[i]
  /\ isRunning' = [isRunning EXCEPT ![i] = TRUE]
  /\ consecutiveErrors' = [consecutiveErrors EXCEPT ![i] = 0]
  /\ startPc' = [startPc EXCEPT ![i] = "tick"]
  /\ Resume(i, "t1", [IdleCo EXCEPT !.pc = "acq_read", !.now = now, !.first = TRUE])
  /\ UNCHANGED <<envVars, storeVars, faults, lockVars, lastTickTime, intervalId, dataVars>>

\* SchedulerService.start() with SCHEDULER_ENABLED = 'false': it returns before
\* any initialize(); the worker goes on consuming.
StartDisabled(i) ==
  /\ Alive(i) /\ startPc[i] = "init" /\ ~isRunning[i] /\ ~schedulerEnabled[i]
  /\ startPc' = [startPc EXCEPT ![i] = "disabled"]
  /\ UNCHANGED <<envVars, storeVars, faults, lockVars, runVars, intervalId, co, dataVars>>

\* Variant: start() arms the poll timer before its first tick.
StartInitOkTimerFirst(i) ==
  /\ Alive(i) /\ startPc[i] = "init" /\ ~isRunning[i] /\ schedulerEnabled[i]
  /\ isRunning' = [isRunning EXCEPT ![i] = TRUE]
  /\ consecutiveErrors' = [consecutiveErrors EXCEPT ![i] = 0]
  /\ intervalId' = [intervalId EXCEPT ![i] = TRUE]
  /\ startPc' = [startPc EXCEPT ![i] = "tick"]
  /\ Resume(i, "t1", [IdleCo EXCEPT !.pc = "acq_read", !.now = now, !.first = TRUE])
  /\ UNCHANGED <<envVars, storeVars, faults, lockVars, lastTickTime, dataVars>>

\* SchedulerService.start() after its initialize() calls: running, counter 0,
\* and the first tick, which start() awaits.
StartInitOk(i) ==
  /\ Alive(i) /\ startPc[i] = "init" /\ ~isRunning[i] /\ schedulerEnabled[i]
  /\ isRunning' = [isRunning EXCEPT ![i] = TRUE]
  /\ consecutiveErrors' = [consecutiveErrors EXCEPT ![i] = 0]
  /\ startPc' = [startPc EXCEPT ![i] = "tick"]
  /\ Resume(i, "t1", [IdleCo EXCEPT !.pc = "acq_read", !.now = now, !.first = TRUE])
  /\ UNCHANGED <<envVars, storeVars, faults, lockVars, lastTickTime, intervalId, dataVars>>

\* SchedulerService.start(): an initialize() throws; isRunning stays false.
StartInitFail(i) ==
  /\ faults > 0
  /\ Alive(i) /\ startPc[i] = "init" /\ ~isRunning[i] /\ schedulerEnabled[i]
  /\ faults' = faults - 1
  /\ isRunning' = [isRunning EXCEPT ![i] = FALSE]
  /\ startPc' = [startPc EXCEPT ![i] = "failed"]
  /\ UNCHANGED <<envVars, storeVars, lockVars, consecutiveErrors, lastTickTime,
                 intervalId, co, dataVars>>

\* stop() of a running scheduler: not running any more, poll timer cancelled,
\* releaseLock() (a no-op without a cached lock), then close the queue.
StopRunning(i) ==
  /\ co[i]["st"].pc = "idle"
  /\ isRunning' = [isRunning EXCEPT ![i] = FALSE]
  /\ intervalId' = [intervalId EXCEPT ![i] = FALSE]
  /\ IF currentLock[i] = NoLock
     THEN /\ Resume(i, "st", [IdleCo EXCEPT !.pc = "close"])
          /\ UNCHANGED timerVars
     ELSE /\ stopRenewalTimer(i)
          /\ Resume(i, "st", [IdleCo EXCEPT !.pc = "rel", !.rec = currentLock[i]])

\* Variant: stop() does not look at isRunning.
StopUnguarded(i) ==
  /\ Alive(i) /\ stopCalls[i] < MaxStops
  /\ stopCalls' = [stopCalls EXCEPT ![i] = @ + 1]
  /\ StopRunning(i)
  /\ UNCHANGED <<now, ticksLeft, crashed, schedulerEnabled, shutdown, roundTrip, storeVars, faults,
                 currentLock, consecutiveErrors, lastTickTime, startPc, dataVars>>

\* SchedulerService.stop(): returns at once when the scheduler is not running.
Stop(i) ==
  /\ Alive(i) /\ stopCalls[i] < MaxStops
  /\ stopCalls' = [stopCalls EXCEPT ![i] = @ + 1]
  /\ IF isRunning[i]
     THEN StopRunning(i)
     ELSE UNCHANGED <<isRunning, intervalId, co, timerVars>>
  /\ UNCHANGED <<now, ticksLeft, crashed, schedulerEnabled, shutdown, roundTrip, storeVars, faults,
                 currentLock, consecutiveErrors, lastTickTime, startPc, dataVars>>

\* JobQueueService.close() in stop(): receiver, sender and client are closed.
Close(i) ==
  /\ Pending(i, "st", "close")
  /\ qconn' = [qconn EXCEPT ![i] = ClosedConn]
  /\ Resume(i, "st", IdleCo)
  /\ UNCHANGED <<envVars, storeVars, faults, lockVars, runVars, intervalId, startPc,
                 searches, queue, job, lastSched>>
\* ------------------------------------------------------------ graceful shutdown of the worker process

\* process.exit(code): the process is gone.
Exit(i, code) ==
  /\ crashed' = [crashed EXCEPT ![i] = TRUE]
  /\ shutdown' = [shutdown EXCEPT ![i] = [@ EXCEPT !.inProgress = TRUE, !.exitCode = code]]

\* Variant of ShutdownTimeout: the forced exit is never taken.
ShutdownTimeoutNever(i) ==
  /\ Alive(i) /\ FALSE
  /\ UNCHANGED vars

\* SIGTERM or SIGINT arrives: handleShutdown().  A second signal exits with
\* code 1.  The first one arms the 30 s timeout and calls worker.stop(), which
\* returns at once when the worker is not running (then the process exits with
\* code 0), and otherwise calls SchedulerService.stop() and, after it,
\* JobQueueService.close().
Signal(i) ==
  /\ Alive(i)
  /\ IF shutdown[i].inProgress
     THEN /\ Exit(i, 1)
          /\ UNCHANGED <<stopCalls, isRunning, intervalId, co, timerVars>>
     ELSE /\ now + ShutdownTimeoutSeconds <= MaxTime
          /\ IF startPc[i] = "new"
             THEN /\ Exit(i, 0)
                  /\ UNCHANGED <<stopCalls, isRunning, intervalId, co, timerVars>>
             ELSE /\ stopCalls[i] < MaxStops
                  /\ stopCalls' = [stopCalls EXCEPT ![i] = @ + 1]
                  /\ IF isRunning[i]
                     THEN StopRunning(i)
                     ELSE UNCHANGED <<isRunning, intervalId, co, timerVars>>
                  /\ shutdown' = [shutdown EXCEPT ![i] =
                                    [@ EXCEPT !.inProgress = TRUE,
                                              !.timeoutAt = now + ShutdownTimeoutSeconds,
                                              !.pc = IF isRunning[i] THEN "sched" ELSE "close"]]
                  /\ UNCHANGED crashed
  /\ UNCHANGED <<now, ticksLeft, schedulerEnabled, roundTrip, storeVars, faults, currentLock,
                 consecutiveErrors, lastTickTime, startPc, dataVars>>

\* worker.stop(): SchedulerService.stop() has returned; JobQueueService.close()
\* is called.
WorkerStopResume(i) ==
  /\ Alive(i) /\ shutdown[i].pc = "sched" /\ co[i]["st"].pc = "idle"
  /\ shutdown' = [shutdown EXCEPT ![i].pc = "close"]
  /\ UNCHANGED <<now, ticksLeft, crashed, schedulerEnabled, stopCalls, roundTrip, storeVars, faults,
                 lockVars, runVars, intervalId, startPc, co, dataVars>>

\* worker.stop(): close() answers and stop() resolves; handleShutdown() clears
\* the timeout and exits with code 0.
ShutdownDone(i) ==
  /\ Alive(i) /\ shutdown[i].pc = "close"
  /\ qconn' = [qconn EXCEPT ![i] = ClosedConn]
  /\ crashed' = [crashed EXCEPT ![i] = TRUE]
  /\ shutdown' = [shutdown EXCEPT ![i] = [@ EXCEPT !.pc = "done", !.timeoutAt = -1,
                                                   !.exitCode = 0]]
  /\ UNCHANGED <<now, ticksLeft, schedulerEnabled, stopCalls, roundTrip, storeVars, faults,
                 lockVars, runVars, intervalId, startPc, co, searches, queue, job, lastSched>>

\* The shutdown timeout fires: the process exits with code 1.
ShutdownTimeout(i) ==
  /\ Alive(i) /\ shutdown[i].timeoutAt >= 0 /\ now >= shutdown[i].timeoutAt
  /\ Exit(i, 1)
  /\ UNCHANGED <<now, ticksLeft, schedulerEnabled, stopCalls, roundTrip, storeVars, faults,
                 lockVars, runVars, intervalId, startPc, co, dataVars>>

\* ------------------------------------------------------------ BookingURLParser

\* JavaScript values: a string is a sequence of characters, a number is an
\* integer or NaN; undefined and null.
Str(s) == [k |-> "string", n |-> 0, s |-> s]
Num(n) == [k |-> "number", n |-> n, s |-> << >>]
NaN == [k |-> "NaN", n |-> 0, s |-> << >>]
Undefined == [k |-> "undefined", n |-> 0, s |-> << >>]
Null == [k |-> "null", n |-> 0, s |-> << >>]

\* Truthiness, a || b and a === b.
Truthy(v) == (v.k = "string" /\ v.s # << >>) \/ (v.k = "number" /\ v.n # 0)
Or(a, b) == IF Truthy(a) THEN a ELSE b
StrictEquals(a, b) == a = b /\ a.k # "NaN"

DigitChars == <<"0", "1", "2", "3", "4", "5", "6", "7", "8", "9">>
IsDigit(c) == \E d \in 1..10 : DigitChars[d] = c
DigitValue(c) == (CHOOSE d \in 1..10 : DigitChars[d] = c) - 1

RECURSIVE TrimStart(_)
TrimStart(s) == IF s # << >> /\ Head(s) = " " THEN TrimStart(Tail(s)) ELSE s

RECURSIVE TrimEnd(_)
TrimEnd(s) == IF s # << >> /\ s[Len(s)] = " " THEN TrimEnd(SubSeq(s, 1, Len(s) - 1)) ELSE s

\* String.prototype.trim()
trim(s) == TrimEnd(TrimStart(s))

\* The value of the leading decimal digits of u, after acc.
RECURSIVE LeadingValue(_, _)
LeadingValue(u, acc) ==
  IF u = << >> \/ ~IsDigit(Head(u)) THEN acc
  ELSE LeadingValue(Tail(u), acc * 10 + DigitValue(Head(u)))

\* parseInt(s, 10) of a string: leading blanks, a sign, then digits up to the
\* first other character; NaN without a digit.
parseInt(s) ==
  LET t == TrimStart(s)
      signed == t # << >> /\ Head(t) \in {"-", "+"}
      u == IF signed THEN Tail(t) ELSE t
  IN IF u = << >> \/ ~IsDigit(Head(u)) THEN NaN
     ELSE IF signed /\ Head(t) = "-" THEN Num(0 - LeadingValue(u, 0))
     ELSE Num(LeadingValue(u, 0))

RECURSIVE Digits(_)
Digits(n) ==
  IF n < 10 THEN <<DigitChars[n + 1]>>
  ELSE Digits(n \div 10) \o <<DigitChars[(n % 10) + 1]>>

\* String(v), as URLSearchParams and template literals apply it.
toString(v) ==
  IF v.k = "string" THEN v.s
  ELSE IF v.n < 0 THEN <<"-">> \o Digits(0 - v.n) ELSE Digits(v.n)

\* The index of the first sep in s, 0 when there is none.
IndexOf(s, sep) ==
  IF \E k \in 1..Len(s) : s[k] = sep
  THEN CHOOSE k \in 1..Len(s) : s[k] = sep /\ \A j \in 1..(k - 1) : s[j] # sep
  ELSE 0

\* String.prototype.split(sep)
RECURSIVE split(_, _)
split(s, sep) ==
  LET k == IndexOf(s, sep) IN
  IF k = 0 THEN <<s>>
  ELSE <<SubSeq(s, 1, k - 1)>> \o split(SubSeq(s, k + 1, Len(s)), sep)

\* Array.prototype.join(sep)
RECURSIVE join(_, _)
join(parts, sep) ==
  IF parts = << >> THEN << >>
  ELSE IF Len(parts) = 1 THEN parts[1]
  ELSE parts[1] \o <<sep>> \o join(Tail(parts), sep)

ReviewScoreKey == <<"r", "e", "v", "i", "e", "w", "_", "s", "c", "o", "r", "e">>
MealplanKey == <<"m", "e", "a", "l", "p", "l", "a", "n">>
MealPlanKey == <<"m", "e", "a", "l", "_", "p", "l", "a", "n">>
StayTypeKey == <<"s", "t", "a", "y", "_", "t", "y", "p", "e">>
HtIdKey == <<"h", "t", "_", "i", "d">>

NoFilters == [reviewScore |-> Undefined, mealPlan |-> Undefined, stayType |-> Undefined]

\* The loop of parseNfltParameter() over the key=value pairs.
RECURSIVE NfltPairs(_, _)
NfltPairs(pairs, filters) ==
  IF pairs = << >> THEN filters
  ELSE LET kv == split(Head(pairs), "=")
           key == trim(kv[1])
           value == kv[2]
           next ==
             IF kv[1] = << >> \/ Len(kv) < 2 THEN filters
             ELSE IF value = << >> THEN filters
             ELSE IF key = ReviewScoreKey THEN [filters EXCEPT !.reviewScore = parseInt(value)]
             ELSE IF key \in {MealplanKey, MealPlanKey}
                  THEN [filters EXCEPT !.mealPlan = parseInt(value)]
             ELSE IF key = StayTypeKey THEN [filters EXCEPT !.stayType = parseInt(value)]
             ELSE IF key = HtIdKey /\ ~Truthy(filters.stayType)
                  THEN [filters EXCEPT !.stayType = parseInt(value)]
             ELSE filters
       IN NfltPairs(Tail(pairs), next)

\* parseNfltParameter(nflt): the value holds no '%', so that decodeURIComponent
\* leaves it as it is.
parseNfltParameter(nflt) ==
  IF ~Truthy(nflt) THEN NoFilters ELSE NfltPairs(split(nflt.s, ";"), NoFilters)

\* The query parameters of a URL that the parser reads for the compared fields
\* (the URLs considered carry no price filter and no child ages).
ParamNames ==
  {"dest_id", "ss_raw", "checkin", "checkout", "group_adults", "adults", "group_children",
   "children", "review_score", "mealplan", "meal_plan", "ht_id", "nflt"}

\* The fields of a criteria object that the round trip compares.
keyFields == {"destination", "checkIn", "checkOut", "adults", "children", "reviewScore",
              "mealPlan"}

\* The clean-up of parseURL(): a key whose value is undefined, 0 or '' is
\* deleted, so that reading it gives undefined.
CleanUp(criteria) ==
  [f \in DOMAIN criteria |->
     IF criteria[f] \in {Undefined, Num(0), Str(<< >>)} THEN Undefined ELSE criteria[f]]

\* BookingURLParser.parseURL(url), on the query parameters of the URL
\* (params[name] is what searchParams.get(name) returns).
parseURL(params) ==
  LET nfltFilters == parseNfltParameter(params["nflt"]) IN
  CleanUp(
    [destination |-> Or(Or(params["dest_id"], params["ss_raw"]), Str(<< >>)),
     checkIn |-> Or(params["checkin"], Str(<< >>)),
     checkOut |-> Or(params["checkout"], Str(<< >>)),
     adults |-> parseInt(Or(Or(params["group_adults"], params["adults"]), Str(<<"2">>)).s),
     children |-> parseInt(Or(Or(params["group_children"], params["children"]),
                              Str(<<"0">>)).s),
     reviewScore |-> Or(Or(nfltFilters.reviewScore,
                           parseInt(Or(params["review_score"], Str(<<"0">>)).s)), Undefined),
     mealPlan |-> Or(Or(nfltFilters.mealPlan,
                        parseInt(Or(Or(params["mealplan"], params["meal_plan"]),
                                    Str(<<"0">>)).s)), Undefined),
     stayType |-> Or(Or(nfltFilters.stayType,
                        parseInt(Or(params["ht_id"], Str(<<"0">>)).s)), Undefined)])

\* The filter parts buildURL() joins into the nflt parameter.
nfltParts(criteria) ==
  (IF Truthy(criteria.reviewScore)
   THEN <<ReviewScoreKey \o <<"=">> \o toString(criteria.reviewScore)>> ELSE << >>)
  \o (IF Truthy(criteria.mealPlan)
      THEN <<MealplanKey \o <<"=">> \o toString(criteria.mealPlan)>> ELSE << >>)
  \o (IF Truthy(criteria.stayType)
      THEN <<HtIdKey \o <<"=">> \o toString(criteria.stayType)>> ELSE << >>)

\* BookingURLParser.buildURL(criteria): the query parameters of the URL built.
buildURL(criteria) ==
  [name \in ParamNames |->
     CASE name = "checkin" -> Str(toString(Or(criteria.checkIn, Str(<< >>))))
       [] name = "checkout" -> Str(toString(Or(criteria.checkOut, Str(<< >>))))
       [] name = "dest_id" -> Str(toString(Or(criteria.destination, Str(<< >>))))
       [] name = "group_adults" -> Str(toString(Or(criteria.adults, Num(2))))
       [] name = "group_children" -> Str(toString(Or(criteria.children, Num(0))))
       [] name = "nflt" -> IF nfltParts(criteria) = << >> THEN Null
                           ELSE Str(join(nfltParts(criteria), ";"))
       [] OTHER -> Null]

\* No URL and no criteria.
NoParams == [name \in ParamNames |-> Null]
NoCriteria == parseURL(NoParams)
NoRoundTrip == [pc |-> "none", originalURL |-> NoParams, parsedCriteria |-> NoCriteria,
                rebuiltURL |-> NoParams, reparsedCriteria |-> NoCriteria]

\* The round trip, step 1: the original URL is parsed.
ParseOriginal ==
  /\ roundTrip.pc = "start"
  /\ roundTrip' = [roundTrip EXCEPT !.pc = "parsed",
                                    !.parsedCriteria = parseURL(roundTrip.originalURL)]
  /\ UNCHANGED allButRoundTrip

\* Step 2: a URL is built from the criteria.
BuildFromCriteria ==
  /\ roundTrip.pc = "parsed"
  /\ roundTrip' = [roundTrip EXCEPT !.pc = "built",
                                    !.rebuiltURL = buildURL(roundTrip.parsedCriteria)]
  /\ UNCHANGED allButRoundTrip

\* Step 3: the rebuilt URL is parsed.
ParseRebuilt ==
  /\ roundTrip.pc = "built"
  /\ roundTrip' = [roundTrip EXCEPT !.pc = "reparsed",
                                    !.reparsedCriteria = parseURL(roundTrip.rebuiltURL)]
  /\ UNCHANGED allButRoundTrip

\* ------------------------------------------------------------ JobQueueService (consumer)

\* Error messages, character by character.
SearchNotFound == <<"S","e","a","r","c","h"," ","n","o","t"," ","f","o","u","n","d">>
NotFound == <<"n","o","t"," ","f","o","u","n","d">>
DoesNotExist == <<"d","o","e","s"," ","n","o","t"," ","e","x","i","s","t">>
IdChars(x) == IF x = "s1" THEN <<"s","1">> ELSE <<"s","2">>

\* `Search not found: ${searchId}` thrown by processJob().
SearchNotFoundFor(x) == SearchNotFound \o <<":"," ">> \o IdChars(x)

\* What scraping, saving prices and sending the e-mail can throw: a browser
\* timeout, or the store's 404 text ("... id does not exist").
WorkErrors == { <<"t","i","m","e","o","u","t">>,
                <<"i","d"," ">> \o DoesNotExist }

\* String.prototype.includes
Includes(m, p) == \E k \in 0..(Len(m) - Len(p)) : SubSeq(m, k + 1, k + Len(p)) = p

\* Variant: every error is non-retryable.
isNonRetryableAlways(m) == TRUE

\* Variant: only the exact message 'Search not found' is non-retryable.
isNonRetryableExact(m) == m = SearchNotFound

\* isNonRetryable in processMessage's catch block.
isNonRetryable(m) ==
  Includes(m, SearchNotFound) \/ Includes(m, NotFound) \/ Includes(m, DoesNotExist)

\* The receiver hands a queued message to processMessage (peek-lock), which
\* calls processJob(message.body); processJob awaits getSearch().
Receive(i, k) ==
  /\ Alive(i) /\ qconn[i].receiver = "open" /\ job[i].pc = "idle"
  /\ k \in 1..Len(queue) /\ queue[k].state = "queued"
  /\ queue' = [queue EXCEPT ![k].state = "locked", ![k].settled = {}, ![k].threw = {},
                            ![k].err = NoErr]
  /\ job' = [job EXCEPT ![i] = [IdleJob EXCEPT !.pc = "get", !.m = k]]
  /\ UNCHANGED <<envVars, storeVars, faults, lockVars, runVars, intervalId, startPc, co,
                 searches, qconn, lastSched>>

\* processJob(): getSearch() answers.  Missing search: throw 'Search not found: id';
\* inactive search: return; otherwise the scrape begins.
JobGet(i) ==
  /\ Alive(i) /\ job[i].pc = "get"
  /\ LET x == queue[job[i].m].searchId IN
     job' = [job EXCEPT ![i] =
               IF ~searches[x].exists
               THEN [@ EXCEPT !.pc = "settle", !.err = SearchNotFoundFor(x)]
               ELSE IF ~searches[x].isActive
               THEN [@ EXCEPT !.pc = "settle"]
               ELSE [@ EXCEPT !.pc = "work"]]
  /\ UNCHANGED <<envVars, storeVars, faults, lockVars, runVars, intervalId, startPc, co,
                 searches, queue, qconn, lastSched>>

\* processJob(): scrape, save prices, e-mail.  They succeed, and processJob
\* calls updateSearch({lastRunAt: now}), or one of them throws.
JobWork(i) ==
  /\ Alive(i) /\ job[i].pc = "work"
  /\ \/ job' = [job EXCEPT ![i] = [@ EXCEPT !.pc = "upd_read", !.now = now]]
     \/ \E e \in WorkErrors : job' = [job EXCEPT ![i] = [@ EXCEPT !.pc = "settle", !.err = e]]
  /\ UNCHANGED <<envVars, storeVars, faults, lockVars, runVars, intervalId, startPc, co,
                 searches, queue, qconn, lastSched>>

\* updateSearch() of processJob(): its getSearch() answers.
JobUpdRead(i) ==
  /\ Alive(i) /\ job[i].pc = "upd_read"
  /\ LET x == queue[job[i].m].searchId IN
     job' = [job EXCEPT ![i] =
               IF searches[x].exists
               THEN [@ EXCEPT !.pc = "upd_write", !.ex = searches[x]]
               ELSE [@ EXCEPT !.pc = "settle", !.err = SearchNotFound]]
  /\ UNCHANGED <<envVars, storeVars, faults, lockVars, runVars, intervalId, startPc, co,
                 searches, queue, qconn, lastSched>>

\* updateSearch() of processJob(): its upsert answers; processJob returns.
JobUpdWrite(i) ==
  /\ Alive(i) /\ job[i].pc = "upd_write"
  /\ LET x == queue[job[i].m].searchId IN
     searches' = [searches EXCEPT ![x] = ProcessedDoc(job[i].ex, job[i].now)]
  /\ job' = [job EXCEPT ![i] = [@ EXCEPT !.pc = "settle", !.ex = NoSearch, !.now = 0]]
  /\ UNCHANGED <<envVars, storeVars, faults, lockVars, runVars, intervalId, startPc, co,
                 queue, qconn, lastSched>>

\* What a settlement call that fails throws (the message lock is lost, the
\* link is closed).
SettleError == <<"l","o","c","k"," ","l","o","s","t">>

\* The settlement call of processMessage's catch block for the caught error e.
CatchCall(e) == IF isNonRetryable(e) THEN "complete" ELSE "abandon"

\* Variant: the outcome of the handler always goes through the classification
\* of the catch block.
FirstCallClassified(herr) == CatchCall(herr)

\* The first settlement call of processMessage for a handler that returned
\* (herr = NoErr) or threw herr.
FirstCall(herr) == IF herr = NoErr THEN "complete" ELSE CatchCall(herr)

\* The settlement calls of processMessage when the first of them throws: a
\* completeMessage() of the try block that throws is caught by the same catch
\* block, which classifies that error and settles again; a call of the catch
\* block that throws leaves processMessage.
CallsWhenFirstThrows(herr) ==
  IF herr = NoErr THEN {FirstCall(herr), CatchCall(SettleError)} ELSE {FirstCall(herr)}

\* processMessage after the handler: completeMessage() when it returned or threw
\* a non-retryable error, abandonMessage() otherwise.  On a closed receiver
\* every settlement call throws and the message keeps its lock.
SettleMessage(i) ==
  /\ Alive(i) /\ job[i].pc = "settle"
  /\ LET k == job[i].m
         herr == job[i].err
         open == qconn[i].receiver = "open"
         calls == IF open THEN {FirstCall(herr)} ELSE CallsWhenFirstThrows(herr) IN
     queue' = [queue EXCEPT ![k].settled = calls,
                            ![k].threw = IF open THEN {} ELSE calls,
                            ![k].err = herr,
                            ![k].state = IF ~open THEN @
                                         ELSE IF FirstCall(herr) = "complete" THEN "done"
                                         ELSE "queued"]
  /\ job' = [job EXCEPT ![i] = IdleJob]
  /\ UNCHANGED <<envVars, storeVars, faults, lockVars, runVars, intervalId, startPc, co,
                 searches, qconn, lastSched>>

\* processMessage after the handler, when its first settlement call throws on
\* an open receiver: after a handler that returned, the catch block settles
\* again (that call succeeds); after a handler that threw, the message keeps
\* its lock.
SettleFault(i) ==
  /\ faults > 0
  /\ Alive(i) /\ job[i].pc = "settle" /\ qconn[i].receiver = "open"
  /\ faults' = faults - 1
  /\ LET k == job[i].m
         herr == job[i].err IN
     queue' = [queue EXCEPT ![k].settled = CallsWhenFirstThrows(herr),
                            ![k].threw = {FirstCall(herr)},
                            ![k].err = herr,
                            ![k].state = IF herr # NoErr THEN @
                                         ELSE IF CatchCall(SettleError) = "complete" THEN "done"
                                         ELSE "queued"]
  /\ job' = [job EXCEPT ![i] = IdleJob]
  /\ UNCHANGED <<envVars, storeVars, lockVars, runVars, intervalId, startPc, co,
                 searches, qconn, lastSched>>

\* ------------------------------------------------------------ environment

\* The calls of live instances that are in flight.
InFlight ==
  {<<i, s>> \in Inst \X Slots : Alive(i) /\ (co[i][s].pc # "idle" \/ UpdBusy(co[i][s]))}

\* Time passes; a renewal timer that is due fires first.
Advance ==
  /\ now < MaxTime
  /\ Cardinality(InFlight) <= MaxSlow
  /\ \A i \in Inst : ~(Alive(i) /\ renewalIntervalId[i] /\ renewDue[i] <= now)
  /\ now' = now + ClockStep
  /\ ticksLeft' = [i \in Inst |-> MaxTicks]
  /\ UNCHANGED <<procVars, storeVars, faults, lockVars, runVars, intervalId,
                 startPc, co, dataVars>>

\* Time passes, however many calls are in flight; the timers that are due fire
\* first.
Elapse ==
  /\ now < MaxTime
  /\ \A i \in Inst : ~(Alive(i) /\ renewalIntervalId[i] /\ renewDue[i] <= now)
  /\ \A i \in Inst : ~(Alive(i) /\ shutdown[i].timeoutAt >= 0 /\ shutdown[i].timeoutAt <= now)
  /\ now' = now + ClockStep
  /\ ticksLeft' = [i \in Inst |-> MaxTicks]
  /\ UNCHANGED <<procVars, storeVars, faults, lockVars, runVars, intervalId,
                 startPc, co, dataVars>>

\* The process of an instance dies: nothing of it runs any more, nothing is
\* released.
Crash(i) ==
  /\ \A j \in Inst : ~crashed[j]
  /\ startPc[i] # "new"
  /\ crashed' = [crashed EXCEPT ![i] = TRUE]
  /\ UNCHANGED <<now, ticksLeft, schedulerEnabled, stopCalls, shutdown, roundTrip, storeVars, faults,
                 lockVars, runVars, intervalId, startPc, co, dataVars>>

\* ------------------------------------------------------------ specifications

InitServices ==
  /\ now = 0
  /\ lockDoc = NoLock
  /\ storeSeq = 0
  /\ crashed = [i \in Inst |-> FALSE]
  /\ stopCalls = [i \in Inst |-> 0]
  /\ shutdown = [i \in Inst |-> NoShutdown]
  /\ currentLock = [i \in Inst |-> NoLock]
  /\ renewalIntervalId = [i \in Inst |-> FALSE]
  /\ renewDue = [i \in Inst |-> 0]
  /\ isRunning = [i \in Inst |-> FALSE]
  /\ intervalId = [i \in Inst |-> FALSE]
  /\ consecutiveErrors = [i \in Inst |-> 0]
  /\ lastTickTime = [i \in Inst |-> -1]
  /\ startPc = [i \in Inst |-> "new"]
  /\ co = [i \in Inst |-> [s \in Slots |-> IdleCo]]
  /\ qconn = [i \in Inst |-> NoConn]
  /\ job = [i \in Inst |-> IdleJob]
  /\ lastSched = [x \in Items |-> NoSched]

InitCommon ==
  /\ InitServices
  /\ roundTrip = NoRoundTrip

\* The lock protocol of two instances over a reliable store, nothing to schedule.
Init ==
  /\ InitCommon
  /\ schedulerEnabled = [i \in Inst |-> TRUE]
  /\ faults = 0
  /\ ticksLeft = [i \in Inst |-> MaxTicks]
  /\ searches = [x \in Items |-> NoSearch]
  /\ queue = << >>

\* The steps of acquireLock(), renewLock() and releaseLock() of the coroutine in slot s.
AcquireStep(i, s) ==
  \/ AcqReadReq(i, s)
  \/ AcqReadResp(i, s)
  \/ AcqUpsertReq(i, s)
  \/ AcqCreateReq(i, s)
  \/ AcqWriteResp(i, s)

\* The steps of an acquireLock() that finds a lock record.
TakeoverStep(i, s) ==
  \/ AcqReadReq(i, s)
  \/ AcqReadResp(i, s)
  \/ AcqUpsertReq(i, s)
  \/ AcqWriteResp(i, s)

\* The steps of an acquireLock() that finds no lock record or its own.
FirstAcquireStep(i, s) ==
  \/ AcqReadReq(i, s)
  \/ AcqReadResp(i, s)
  \/ AcqCreateReq(i, s)
  \/ AcqWriteResp(i, s)

RenewStep(i, s) == RenewReq(i, s) \/ RenewResp(i, s)

ReleaseStep(i, s) == RelReq(i, s) \/ RelResp(i, s)

\* An instance starts, runs the tick of start() and keeps its lock renewed.
FirstTickNext ==
  \/ \E i \in Inst : WorkerStart(i) \/ StartInitOk(i)
  \/ \E i \in Inst : AcquireStep(i, "t1") \/ QueryResp(i, "t1")
  \/ \E i \in Inst : RenewTimerFire(i)
  \/ \E i \in Inst, s \in {"t1", "rt"} : RenewStep(i, s)
  \/ Advance

Next ==
  \/ FirstTickNext
  \/ \E i \in Inst : TimerTick(i, "t1")

Spec == Init /\ [][Next]_vars

\* The operator stops instance B (SIGTERM): B's stop() releases the lock and
\* closes its queue connections.  Only the ticks of start() run.
NextStop ==
  \/ FirstTickNext
  \/ Stop("B") \/ ReleaseStep("B", "st") \/ Close("B")

SpecStop == Init /\ [][NextStop]_vars
\* Instance A has started and is the leader: the tick of its start() created
\* the lock record at time 0, and its renewal timer is armed.
LeaderDoc == NewLockDoc("A", 0, 1, NoLock)

InitLeader ==
  /\ now = 0
  /\ roundTrip = NoRoundTrip
  /\ lockDoc = LeaderDoc
  /\ storeSeq = 1
  /\ ticksLeft = [i \in Inst |-> MaxTicks]
  /\ crashed = [i \in Inst |-> FALSE]
  /\ schedulerEnabled = [i \in Inst |-> TRUE]
  /\ stopCalls = [i \in Inst |-> 0]
  /\ shutdown = [i \in Inst |-> NoShutdown]
  /\ currentLock = [i \in Inst |-> IF i = "A" THEN LeaderDoc ELSE NoLock]
  /\ renewalIntervalId = [i \in Inst |-> i = "A"]
  /\ renewDue = [i \in Inst |-> IF i = "A" THEN lockRenewalIntervalSeconds ELSE 0]
  /\ isRunning = [i \in Inst |-> i = "A"]
  /\ intervalId = [i \in Inst |-> i = "A"]
  /\ consecutiveErrors = [i \in Inst |-> 0]
  /\ lastTickTime = [i \in Inst |-> IF i = "A" THEN 0 ELSE -1]
  /\ startPc = [i \in Inst |-> IF i = "A" THEN "done" ELSE "new"]
  /\ co = [i \in Inst |-> [s \in Slots |-> IdleCo]]
  /\ qconn = [i \in Inst |-> IF i = "A" THEN OpenConn ELSE NoConn]
  /\ job = [i \in Inst |-> IdleJob]
  /\ lastSched = [x \in Items |-> NoSched]
  /\ searches = [x \in Items |-> NoSearch]
  /\ queue = << >>

InitCrash ==
  /\ InitLeader
  /\ faults = 0

\* The leader A renews its lock until it crashes, which it may at any moment;
\* instance B starts and keeps ticking.  The store answers every call, timers
\* fire and time passes.
NextCrash ==
  \/ Crash("A")
  \/ WorkerStart("B") \/ StartInitOk("B")
  \/ TimerTick("B", "t1") \/ TakeoverStep("B", "t1") \/ QueryResp("B", "t1")
  \/ \E i \in Inst : RenewTimerFire(i)
  \/ \E i \in Inst, s \in {"t1", "rt"} : RenewStep(i, s)
  \/ Advance

SpecCrash ==
  /\ InitCrash /\ [][NextCrash]_vars
  /\ WF_vars(WorkerStart("B") \/ StartInitOk("B"))
  /\ WF_vars(Advance)
  /\ WF_vars(TimerTick("B", "t1"))
  /\ WF_vars(TakeoverStep("B", "t1") \/ QueryResp("B", "t1"))
  /\ WF_vars(RenewTimerFire("B"))
  /\ WF_vars(\E s \in {"t1", "rt"} : RenewStep("B", s))

\* A message published by the web API for a search that has been deleted since.
ManualMessage(x) ==
  [sessionId |-> x, searchId |-> x, scheduleType |-> "manual", state |-> "queued",
   settled |-> {}, threw |-> {}, err |-> << >>]

\* One instance whose store fails again and again: enough failures and poll
\* ticks to trip the circuit breaker, and a message waiting in the queue.
InitBreaker ==
  /\ InitCommon
  /\ schedulerEnabled = [i \in Inst |-> TRUE]
  /\ faults = maxConsecutiveErrors + MaxFaults
  /\ ticksLeft = [i \in Inst |-> IF i = "A" THEN maxConsecutiveErrors + MaxTicks ELSE 0]
  /\ searches = [x \in Items |-> NoSearch]
  /\ queue = <<ManualMessage("s1")>>

NextBreaker ==
  \/ WorkerStart("A") \/ StartInitOk("A")
  \/ TimerTick("A", "t1") \/ FirstAcquireStep("A", "t1") \/ QueryResp("A", "t1")
  \/ CallFault("A", "t1")
  \/ RenewStep("A", "t1") \/ ReleaseStep("A", "t1")
  \/ \E k \in 1..MaxMessages : Receive("A", k)
  \/ JobGet("A") \/ SettleMessage("A")

SpecBreaker == InitBreaker /\ [][NextBreaker]_vars

\* A saved search that became due one clock step ago, run every h hours.
DueSearch(h) ==
  [exists |-> TRUE, isActive |-> TRUE, enabled |-> TRUE, nextRun |-> 0 - ClockStep,
   intervalHours |-> h, lastRunAt |-> -1]

\* One instance that schedules and consumes, within one clock step: search s1
\* is due, search s2 is due as well, or inactive, or deleted; a message for s2,
\* published by the web API, waits in the queue.
InitItems ==
  /\ InitCommon
  /\ schedulerEnabled = [i \in Inst |-> TRUE]
  /\ faults = 0
  /\ ticksLeft = [i \in Inst |-> IF i = "A" THEN MaxTicks ELSE 0]
  /\ \E d \in {NoSearch, DueSearch(2), [DueSearch(2) EXCEPT !.isActive = FALSE]} :
        searches = [x \in Items |-> IF x = "s1" THEN DueSearch(1) ELSE d]
  /\ queue = <<ManualMessage("s2")>>

NextItems ==
  \/ WorkerStart("A") \/ StartInitOk("A")
  \/ TimerTick("A", "t1") \/ FirstAcquireStep("A", "t1")
  \/ QueryResp("A", "t1") \/ PublishResp("A", "t1")
  \/ \E x \in Items : UpdRead("A", "t1", x) \/ UpdWrite("A", "t1", x)
  \/ RenewStep("A", "t1")
  \/ \E k \in 1..MaxMessages : Receive("A", k)
  \/ JobGet("A") \/ JobWork("A") \/ JobUpdRead("A") \/ JobUpdWrite("A")
  \/ SettleMessage("A")

SpecItems == InitItems /\ [][NextItems]_vars

\* Instance A runs with SCHEDULER_ENABLED = 'false' and consumes; instance B
\* schedules.  Search s1 is due, search s2 is inactive or deleted; messages
\* published by the web API wait in the queue, and a settlement call may fail.
InitConsume ==
  /\ InitCommon
  /\ schedulerEnabled = [i \in Inst |-> i = "B"]
  /\ faults = MaxFaults
  /\ ticksLeft = [i \in Inst |-> MaxTicks]
  /\ \E d \in {NoSearch, [DueSearch(2) EXCEPT !.isActive = FALSE]} :
        searches = [x \in Items |-> IF x = "s1" THEN DueSearch(1) ELSE d]
  /\ queue = <<ManualMessage("s2"), ManualMessage("s1")>>

NextConsume ==
  \/ \E i \in Inst : WorkerStart(i) \/ StartDisabled(i) \/ StartInitOk(i)
  \/ \E i \in Inst : FirstAcquireStep(i, "t1") \/ QueryResp(i, "t1") \/ PublishResp(i, "t1")
  \/ \E i \in Inst, x \in Items : UpdRead(i, "t1", x) \/ UpdWrite(i, "t1", x)
  \/ \E i \in Inst : RenewStep(i, "t1")
  \/ \E k \in 1..MaxMessages : Receive("A", k)
  \/ JobGet("A") \/ JobWork("A") \/ JobUpdRead("A") \/ JobUpdWrite("A")
  \/ SettleMessage("A") \/ SettleFault("A")

SpecConsume == InitConsume /\ [][NextConsume]_vars

\* Two instances start over a store that may fail once, tick, and are stopped
\* by the operator, more than once and at any moment.
InitStart ==
  /\ InitCommon
  /\ schedulerEnabled = [i \in Inst |-> TRUE]
  /\ faults = MaxFaults
  /\ ticksLeft = [i \in Inst |-> MaxTicks]
  /\ searches = [x \in Items |-> NoSearch]
  /\ queue = << >>

NextStart ==
  \/ \E i \in Inst : WorkerStart(i) \/ StartInitOk(i) \/ StartInitFail(i)
  \/ \E i \in Inst : TimerTick(i, "t1") \/ FirstAcquireStep(i, "t1") \/ QueryResp(i, "t1")
  \/ \E i \in Inst : RenewStep(i, "t1")
  \/ \E i \in Inst : Stop(i) \/ ReleaseStep(i, "st") \/ Close(i)
  \/ \E i \in Inst : LockFault(i, "st")

SpecStart == InitStart /\ [][NextStart]_vars

\* The leader A renews its lock while instance B starts and tries to acquire;
\* one call on the lock record may fail with a transient store error, and the
\* operator may stop either instance.
InitRelease ==
  /\ InitLeader
  /\ faults = MaxFaults

NextRelease ==
  \/ WorkerStart("B") \/ StartInitOk("B")
  \/ AcquireStep("B", "t1") \/ QueryResp("B", "t1")
  \/ \E i \in Inst : RenewTimerFire(i)
  \/ \E i \in Inst, s \in {"t1", "rt"} : RenewStep(i, s)
  \/ \E i \in Inst, s \in {"t1", "rt", "st"} : LockFault(i, s)
  \/ \E i \in Inst : Stop(i) \/ ReleaseStep(i, "st") \/ Close(i)
  \/ Advance

SpecRelease == InitRelease /\ [][NextRelease]_vars

\* The leader A and an instance B, whose worker may have started while its
\* scheduler has not, receive shutdown signals; the store and the queue may
\* leave any call unanswered for ever, the timers of a live process fire and
\* time passes.
InitShutdown ==
  /\ InitLeader
  /\ faults = 0

NextShutdown ==
  \/ WorkerStart("B")
  \/ RenewTimerFire("A") \/ RenewStep("A", "rt")
  \/ \E i \in Inst : Signal(i) \/ ReleaseStep(i, "st") \/ Close(i)
  \/ \E i \in Inst : WorkerStopResume(i) \/ ShutdownDone(i) \/ ShutdownTimeout(i)
  \/ Elapse

SpecShutdown ==
  /\ InitShutdown /\ [][NextShutdown]_vars
  /\ WF_vars(Elapse)
  /\ \A i \in Inst : WF_vars(RenewTimerFire(i)) /\ WF_vars(ShutdownTimeout(i))

\* The URLs of the round trip: every combination of a few values of the query
\* parameters read for the compared fields.
Dest == <<"2", "6", "4", "7">>
City == <<"R", "o", "m", "e">>
DateIn == <<"2", "0", "2", "6", "-", "0", "7", "-", "1", "0">>
DateOut == <<"2", "0", "2", "6", "-", "0", "7", "-", "2", "0">>
NfltValues ==
  {Null,
   Str(ReviewScoreKey \o <<"=", "8", "0", ";">> \o MealplanKey \o <<"=", "9">>),
   Str(MealPlanKey \o <<"=", "1", ";">> \o HtIdKey \o <<"=", "2", "0", "4">>),
   Str(<<" ">> \o ReviewScoreKey \o <<" ", "=", "0", ";", ";">> \o StayTypeKey \o <<"=", "x">>)}

URLs ==
  {[dest_id |-> d, ss_raw |-> sr, checkin |-> ci, checkout |-> cu, group_adults |-> ga,
    adults |-> ad, group_children |-> gc, children |-> ch, review_score |-> rs,
    mealplan |-> mp, meal_plan |-> Null, ht_id |-> Null, nflt |-> nf] :
     d \in {Null, Str(<< >>), Str(Dest)},
     sr \in {Null, Str(City)},
     ci \in {Null, Str(DateIn)},
     cu \in {Null, Str(DateOut)},
     ga \in {Null, Str(<<"0">>), Str(<<"2">>), Str(<<"1", "2">>), Str(<<"x">>)},
     ad \in {Null, Str(<<"2">>)},
     gc \in {Null, Str(<<"0">>), Str(<<"2">>)},
     ch \in {Null, Str(<<"2">>)},
     rs \in {Null, Str(<<"7", "0">>)},
     mp \in {Null, Str(<<"2">>)},
     nf \in NfltValues}

InitURL ==
  /\ InitServices
  /\ schedulerEnabled = [i \in Inst |-> TRUE]
  /\ faults = 0
  /\ ticksLeft = [i \in Inst |-> MaxTicks]
  /\ searches = [x \in Items |-> NoSearch]
  /\ queue = << >>
  /\ \E u \in URLs : roundTrip = [NoRoundTrip EXCEPT !.pc = "start", !.originalURL = u]

NextURL == ParseOriginal \/ BuildFromCriteria \/ ParseRebuilt

SpecURL == InitURL /\ [][NextURL]_vars

\* One instance whose store fails again and again, and whose poll timer fires
\* again while the previous tick is still awaiting an answer: two ticks of the
\* instance can be in flight together.
InitOverlap ==
  /\ InitCommon
  /\ schedulerEnabled = [i \in Inst |-> TRUE]
  /\ faults = maxConsecutiveErrors + MaxFaults
  /\ ticksLeft = [i \in Inst |-> IF i = "A" THEN maxConsecutiveErrors + MaxTicks ELSE 0]
  /\ searches = [x \in Items |-> NoSearch]
  /\ queue = << >>

NextOverlap ==
  \/ WorkerStart("A") \/ StartInitOk("A")
  \/ \E s \in TickSlots :
        \/ TimerTick("A", s) \/ FirstAcquireStep("A", s) \/ QueryResp("A", s)
        \/ CallFault("A", s)
        \/ RenewStep("A", s) \/ ReleaseStep("A", s)

SpecOverlap == InitOverlap /\ [][NextOverlap]_vars

\* One instance that schedules, within one clock step, over a store whose
\* calls may fail: search s1 is due; search s2 is due as well
\* (since the same instant or since longer), or not due (inactive, schedule
\* disabled, next run in the future), or deleted.
TickSearches ==
  {NoSearch, DueSearch(2),
   [DueSearch(2) EXCEPT !.nextRun = 0 - 2 * ClockStep],
   [DueSearch(2) EXCEPT !.nextRun = ClockStep],
   [DueSearch(2) EXCEPT !.isActive = FALSE],
   [DueSearch(2) EXCEPT !.enabled = FALSE]}

InitTick ==
  /\ InitCommon
  /\ schedulerEnabled = [i \in Inst |-> TRUE]
  /\ faults = MaxFaults + 1
  /\ ticksLeft = [i \in Inst |-> IF i = "A" THEN MaxTicks + 1 ELSE 0]
  /\ \E d \in TickSearches : searches = [x \in Items |-> IF x = "s1" THEN DueSearch(1) ELSE d]
  /\ queue = << >>

NextTick ==
  \/ WorkerStart("A") \/ StartInitOk("A")
  \/ TimerTick("A", "t1") \/ FirstAcquireStep("A", "t1")
  \/ QueryResp("A", "t1") \/ PublishResp("A", "t1")
  \/ \E x \in Items : UpdRead("A", "t1", x) \/ UpdWrite("A", "t1", x)
  \/ CallFault("A", "t1")
  \/ \E x \in Items : UpdFault("A", "t1", x)
  \/ RenewStep("A", "t1") \/ LockFault("A", "t1")

SpecTick == InitTick /\ [][NextTick]_vars

\* One instance that polls while the clock advances: search s1 becomes due one
\* clock step after the start, and a call of a tick may still be awaiting its
\* answer when the poll timer fires again.
InitPoll ==
  /\ InitCommon
  /\ schedulerEnabled = [i \in Inst |-> TRUE]
  /\ faults = 0
  /\ ticksLeft = [i \in Inst |-> IF i = "A" THEN MaxTicks ELSE 0]
  /\ searches = [x \in Items |-> IF x = "s1" THEN [DueSearch(1) EXCEPT !.nextRun = ClockStep]
                                              ELSE NoSearch]
  /\ queue = << >>

NextPoll ==
  \/ WorkerStart("A") \/ StartInitOk("A")
  \/ \E s \in TickSlots :
        \/ TimerTick("A", s) \/ FirstAcquireStep("A", s)
        \/ QueryResp("A", s) \/ PublishResp("A", s)
        \/ \E x \in Items : UpdRead("A", s, x) \/ UpdWrite("A", s, x)
        \/ RenewStep("A", s)
  \/ RenewTimerFire("A") \/ RenewStep("A", "rt")
  \/ Advance

SpecPoll == InitPoll /\ [][NextPoll]_vars

\* The leader A polls and renews while the clock advances, over a lock store
\* that may fail once with a transient error.
InitRenew ==
  /\ InitLeader
  /\ faults = MaxFaults

NextRenew ==
  \/ TimerTick("A", "t1") \/ TakeoverStep("A", "t1") \/ QueryResp("A", "t1")
  \/ RenewTimerFire("A")
  \/ \E s \in {"t1", "rt"} : RenewStep("A", s) \/ LockFault("A", s)
  \/ Advance

SpecRenew == InitRenew /\ [][NextRenew]_vars

\* One instance that keeps running and polls, within one clock step, over a
\* store and a queue whose calls may fail a bounded number of times; a due
\* query returns at most PageLimit searches.  Search s1 is due; search s2 is
\* due as well (since the same instant or since longer), or not due, or deleted.
InitFair ==
  /\ InitCommon
  /\ schedulerEnabled = [i \in Inst |-> TRUE]
  /\ faults = MaxFaults
  /\ ticksLeft = [i \in Inst |-> IF i = "A" THEN MaxTicks + MaxFaults + 1 ELSE 0]
  /\ \E d \in TickSearches : searches = [x \in Items |-> IF x = "s1" THEN DueSearch(1) ELSE d]
  /\ queue = << >>

\* The steps of the scheduler of instance i, and the failures of its calls.
FairSteps(i) ==
  \/ WorkerStart(i) \/ StartInitOk(i)
  \/ TimerTick(i, "t1") \/ FirstAcquireStep(i, "t1")
  \/ QueryRespPaged(i, "t1") \/ PublishResp(i, "t1")
  \/ \E x \in Items : UpdRead(i, "t1", x) \/ UpdWrite(i, "t1", x)
  \/ RenewStep(i, "t1")

NextFair ==
  \/ FairSteps("A")
  \/ CallFault("A", "t1")
  \/ \E x \in Items : UpdFault("A", "t1", x)
  \/ LockFault("A", "t1")

\* The event loop runs every continuation whose answer has arrived and the
\* poll timer keeps firing; no failure is ever forced to happen.
SpecFair == InitFair /\ [][NextFair]_vars /\ WF_vars(FairSteps("A"))

\* ------------------------------------------------------------ properties: the lock

WritePcs == {"acq_upsert", "acq_create"}

\* The versions of the lock record (etag; 0 = no record) that instance i has
\* read in an acquireLock() whose write then succeeded.
WonVersions(i) ==
  {co[i][s].rec.prev : s \in {t \in TickSlots : co[i][t].pc \in WritePcs /\ co[i][t].res = "ok"}}
  \cup (IF currentLock[i] # NoLock THEN {currentLock[i].prev} ELSE {})

\* C1: of two instances whose acquireLock() calls race for the same absent or
\* expired version of the lock record, at most one wins (returns true); the one
\* whose create answers 409 or whose takeover upsert answers 412 returns false:
\* its tick ends and its cached lock is not set.
C1_AtMostOneWinner ==
  [][ /\ \A i, j \in Inst : i # j => (WonVersions(i) \cap WonVersions(j) = {})'
      /\ \A j \in Inst, s \in TickSlots :
           (/\ co[j][s].pc \in WritePcs
            /\ co[j][s].res \in {"409", "412"}
            /\ co'[j][s] # co[j][s])
           => co'[j][s].pc = "idle" /\ currentLock'[j] = currentLock[j] ]_vars

\* C1 witness: an instance lost a takeover race (412) for a version another
\* instance won.
C1_Witness ==
  \E i, j \in Inst, s \in TickSlots :
    /\ i # j
    /\ co[j][s].pc = "acq_upsert" /\ co[j][s].res = "412"
    /\ co[j][s].rec.etag \in WonVersions(i)

\* An instance is inside the scheduling part of a tick: after acquireLock()
\* returned true, at the due query, the publish or the nextRun updates.
InScheduling(i) == \E s \in TickSlots : co[i][s].pc \in {"query", "publish", "update"}

\* C2: no two instances are inside the scheduling part of a tick at the same time.
C2_OneScheduler ==
  \A i, j \in Inst : i # j => ~(InScheduling(i) /\ InScheduling(j))

\* C3: acquireLock() of an instance that read the never-renewed lock of another
\* instance (expiresAt = acquiredAt + D) returns false when its now is at most
\* acquiredAt + D, and attempts the takeover when its now is later; the takeover
\* whose upsert succeeds returns true (the lock is cached, the tick goes on to
\* the due query).
C3_SelfExpiry ==
  [][ \A j \in Inst, s \in TickSlots :
        /\ (/\ co[j][s].pc = "acq_read" /\ co[j][s].res = "ok"
            /\ co[j][s].rec.instanceId # j
            /\ co[j][s].rec.expiresAt = co[j][s].rec.acquiredAt + lockDurationSeconds
            /\ co'[j][s] # co[j][s])
           => IF co[j][s].now <= co[j][s].rec.acquiredAt + lockDurationSeconds
              THEN co'[j][s].pc = "idle" /\ currentLock'[j] = currentLock[j]
                   /\ lockDoc' = lockDoc
              ELSE co'[j][s].pc = "acq_upsert" /\ co'[j][s].res = "none"
        /\ (/\ co[j][s].pc = "acq_upsert" /\ co[j][s].res = "ok"
            /\ co'[j][s] # co[j][s])
           => co'[j][s].pc = "query" /\ currentLock'[j] = co[j][s].rec ]_vars

\* C3 witness: an instance has taken over the expired, never-renewed lock of
\* another one (its upsert succeeded and is stored).
C3_Witness ==
  \E j \in Inst, s \in TickSlots :
    /\ co[j][s].pc = "acq_upsert" /\ co[j][s].res = "ok"
    /\ co[j][s].rec.instanceId = j /\ co[j][s].rec.prev # 0
    /\ lockDoc = co[j][s].rec
    /\ co[j][s].now > lockDurationSeconds

\* C4: a renewLock() called when the cached version is no longer the stored one,
\* because another instance has taken the lock over (and may have released,
\* i.e. deleted, it since), does not succeed (it is answered with an error and
\* returns false) and leaves the store unchanged.
C4_StaleRenewRejected ==
  [][ \A i \in Inst, s \in {"t1", "rt"} :
        (/\ co[i][s].pc = "renew" /\ co[i][s].res = "none" /\ co[i][s].stale
         /\ co'[i][s].res # "none")
        => co'[i][s].res \in {"412", "err"} /\ lockDoc' = lockDoc ]_vars
\* C5: when instance A has crashed while its lock record is stored, B's
\* acquireLock() eventually returns true with a lock it took over from A's
\* record (within the model's horizon: the record expires before the clock's
\* last value and a write is left).
C5_CrashTakeover ==
  (/\ crashed["A"]
   /\ lockDoc.instanceId = "A"
   /\ lockDoc.expiresAt < MaxTime /\ storeSeq < MaxWrites)
  ~> (currentLock["B"].from = "A" /\ lockDoc.instanceId = "B")

\* C5 witness: A has crashed holding the lock, and B has taken it over.
C5_Witness ==
  /\ crashed["A"]
  /\ lockDoc.instanceId = "B" /\ lockDoc.from = "A"
  /\ currentLock["B"] = lockDoc
\* ------------------------------------------------------------ properties: the scheduler

\* C6: the failing tick that raises consecutiveErrors to maxConsecutiveErrors
\* leaves isRunning false and the poll timer cancelled and has called
\* releaseLock() (its delete is awaited, unless no lock is cached); the failing
\* tick that raises the counter to maxConsecutiveErrors - 1 leaves a running
\* scheduler running, with its poll timer.
C6_CircuitBreaker ==
  [][ \A i \in Inst :
        /\ (consecutiveErrors[i] = maxConsecutiveErrors - 1
            /\ consecutiveErrors'[i] = maxConsecutiveErrors)
           => /\ ~isRunning'[i] /\ ~intervalId'[i]
              /\ \/ currentLock[i] = NoLock
                 \/ \E s \in TickSlots : /\ co'[i][s].pc = "rel" /\ co'[i][s].res = "none"
                                         /\ co'[i][s].rec = currentLock[i]
                                         /\ ~renewalIntervalId'[i]
        /\ (consecutiveErrors[i] = maxConsecutiveErrors - 2
            /\ consecutiveErrors'[i] = maxConsecutiveErrors - 1
            /\ isRunning[i])
           => isRunning'[i] /\ intervalId'[i] = intervalId[i] ]_vars

\* C6 witness: the breaker has tripped with a lock held, whose release is awaited.
C6_Witness ==
  \E i \in Inst :
    /\ consecutiveErrors[i] = maxConsecutiveErrors
    /\ ~isRunning[i] /\ ~intervalId[i]
    /\ co[i]["t1"].pc = "rel"

\* C7: the tick that trips the circuit breaker, its releaseLock() included,
\* leaves the queue client, sender and receiver as they are, and they are open
\* once the breaker has tripped.
C7_TripKeepsQueue ==
  [][ \A i \in Inst :
        (\/ consecutiveErrors[i] < maxConsecutiveErrors
            /\ consecutiveErrors'[i] >= maxConsecutiveErrors
         \/ \E s \in TickSlots : co[i][s].pc = "rel" /\ co'[i][s] # co[i][s])
        => qconn'[i] = qconn[i] /\ qconn'[i] = OpenConn ]_vars

\* C7 witness: the breaker has tripped, and the receiver of the same process is
\* handling a delivery.
C7_Witness ==
  \E i \in Inst :
    /\ consecutiveErrors[i] >= maxConsecutiveErrors /\ ~isRunning[i]
    /\ co[i]["t1"].pc = "idle"
    /\ qconn[i] = OpenConn
    /\ job[i].pc = "get"
\* ------------------------------------------------------------ properties: scheduling

Range(q) == {q[k] : k \in 1..Len(q)}

\* C8: the publish of a tick appends to the queue exactly one message for each
\* search its due query returned, with sessionId = the search id and scheduleType
\* 'scheduled', and nothing else of a tick adds messages; each update the tick
\* writes sets nextRun = scheduling instant + intervalHours and lastRunAt =
\* scheduling instant, the instant being the one taken after the publish.
C8_OncePerTick ==
  [][ \A i \in Inst, s \in TickSlots :
        LET c == co[i][s] IN
        /\ (co'[i][s] # c /\ c.pc # "publish") => queue' = queue \/ Len(queue') = Len(queue)
        /\ (c.pc = "publish" /\ co'[i][s].pc = "update")
           => /\ Len(queue') = Len(queue) + Len(c.due)
              /\ SubSeq(queue', 1, Len(queue)) = queue
              /\ co'[i][s].sched = now
              /\ \A x \in Range(c.due) :
                   Cardinality({k \in Len(queue) + 1..Len(queue') :
                                  queue'[k].searchId = x}) = 1
              /\ \A k \in Len(queue) + 1..Len(queue') :
                   /\ queue'[k].searchId \in Range(c.due)
                   /\ queue'[k].sessionId = queue'[k].searchId
                   /\ queue'[k].scheduleType = "scheduled"
        /\ \A x \in Items :
             (c.upd[x] = "write" /\ co'[i][s].upd[x] = "done")
             => /\ searches'[x].nextRun = c.sched + c.snap[x].intervalHours * HourSeconds
                /\ searches'[x].lastRunAt = c.sched
                /\ \A y \in Items \ {x} : searches'[y] = searches[y] ]_vars

\* C8 witness: a tick has published two due searches in one batch and has
\* written the update of one of them.
C8_Witness ==
  \E i \in Inst, x \in Items :
    /\ Len(co[i]["t1"].due) = 2
    /\ co[i]["t1"].upd[x] = "done"
    /\ searches[x].nextRun = co[i]["t1"].sched + searches[x].intervalHours * HourSeconds
    /\ \E k \in 1..Len(queue) : queue[k].searchId = x /\ queue[k].scheduleType = "scheduled"

\* C9: a search whose scheduling (with intervalHours > 0) had been persisted
\* when a tick called the due query is returned by that query only if
\* intervalHours have passed since the scheduling instant.
C9_NotDueBeforeInterval ==
  [][ \A i \in Inst, s \in TickSlots, x \in Items :
        (/\ co[i][s].pc = "query" /\ co'[i][s].pc = "publish"
         /\ x \in Range(co'[i][s].due)
         /\ x \in co[i][s].after)
        => co[i][s].now >= lastSched[x].at + lastSched[x].ih * HourSeconds ]_vars

\* ------------------------------------------------------------ properties: the consumer

\* The not-found class of error messages.
NotFoundClass(m) ==
  Includes(m, SearchNotFound) \/ Includes(m, NotFound) \/ Includes(m, DoesNotExist)

\* C10: for a delivery whose handler threw an error of the not-found class,
\* completeMessage() has been called and abandonMessage() has not.
C10_NotFoundCompletes ==
  \A k \in 1..Len(queue) :
    NotFoundClass(queue[k].err) => queue[k].settled = {"complete"}

\* C10 witness: a delivery whose handler threw 'Search not found: s2' has been
\* completed and is gone from the queue.
C10_Witness ==
  \E k \in 1..Len(queue) :
    /\ queue[k].err = SearchNotFoundFor("s2")
    /\ queue[k].settled = {"complete"}
    /\ queue[k].state = "done"

\* C11: for a delivery whose handler threw an error outside the not-found
\* class, abandonMessage() has been called and completeMessage() has not.
C11_RetryableAbandons ==
  \A k \in 1..Len(queue) :
    (queue[k].err # NoErr /\ ~NotFoundClass(queue[k].err))
    => queue[k].settled = {"abandon"}

\* C11 witness: a delivery whose handler threw a browser timeout has been
\* abandoned and is queued again.
C11_Witness ==
  \E k \in 1..Len(queue) :
    /\ queue[k].err = <<"t","i","m","e","o","u","t">>
    /\ queue[k].settled = {"abandon"}
    /\ queue[k].state = "queued"

C13_DisabledScheduler ==
  \A i \in Inst :
    ~schedulerEnabled[i]
    => /\ ~isRunning[i] /\ ~intervalId[i] /\ ~renewalIntervalId[i]
       /\ startPc[i] \in {"new", "init", "disabled"}
       /\ \A s \in Slots : co[i][s] = IdleCo
       /\ currentLock[i] = NoLock /\ lockDoc.instanceId # i
       /\ lastTickTime[i] = -1 /\ consecutiveErrors[i] = 0
       /\ startPc[i] # "new" => qconn[i] = OpenConn

\* C13 witness: start() of the disabled instance has returned, its consumer has
\* completed one delivery and is handling another.
C13_Witness ==
  \E i \in Inst :
    /\ ~schedulerEnabled[i] /\ startPc[i] = "disabled"
    /\ \E k \in 1..Len(queue) : queue[k].state = "done"
    /\ job[i].pc = "work"

\* ------------------------------------------------------------ properties: acquireLock() on a live lock

\* C16: acquireLock() of an instance that read its own record, not expired at
\* the call's now, returns true (the tick goes on to the due query) with the
\* record cached as read, and writes nothing: record and etag source are
\* unchanged.
C16_HolderAcquireNoWrite ==
  [][ \A i \in Inst, s \in TickSlots :
        LET c == co[i][s] IN
        (/\ c.pc = "acq_read" /\ c.res = "ok"
         /\ c.rec.instanceId = i /\ c.now <= c.rec.expiresAt
         /\ co'[i][s] # c)
        => /\ co'[i][s].pc = "query"
           /\ currentLock'[i] = c.rec
           /\ lockDoc' = lockDoc /\ storeSeq' = storeSeq ]_vars

\* C16 witness: the acquireLock() of a later tick of the holder has read the
\* holder's own, unexpired record.
C16_Witness ==
  \E i \in Inst, s \in TickSlots :
    /\ co[i][s].pc = "acq_read" /\ co[i][s].res = "ok" /\ ~co[i][s].first
    /\ co[i][s].rec.instanceId = i /\ co[i][s].now <= co[i][s].rec.expiresAt
    /\ co[i][s].rec = lockDoc /\ currentLock[i] = lockDoc

\* C17: acquireLock() of an instance that read the record of another instance,
\* not expired at the call's now, returns false and the tick ends there: no due
\* query, nothing published, no search updated, nothing written to the lock
\* record, and the instance's consecutiveErrors, lastTickTime and cached lock
\* are unchanged.
C17_NonHolderTickNoop ==
  [][ \A j \in Inst, s \in TickSlots :
        LET c == co[j][s] IN
        (/\ c.pc = "acq_read" /\ c.res = "ok"
         /\ c.rec.instanceId # j /\ c.now <= c.rec.expiresAt
         /\ co'[j][s] # c)
        => /\ co'[j][s].pc = "idle" /\ ~UpdBusy(co'[j][s])
           /\ lockDoc' = lockDoc /\ storeSeq' = storeSeq
           /\ searches' = searches /\ queue' = queue
           /\ consecutiveErrors'[j] = consecutiveErrors[j]
           /\ lastTickTime'[j] = lastTickTime[j]
           /\ currentLock'[j] = currentLock[j] ]_vars

\* C17 witness: the acquireLock() of a tick has read the live record that
\* another instance holds and has cached.
C17_Witness ==
  \E i, j \in Inst, s \in TickSlots :
    /\ i # j
    /\ co[j][s].pc = "acq_read" /\ co[j][s].res = "ok"
    /\ co[j][s].rec.instanceId = i /\ co[j][s].now <= co[j][s].rec.expiresAt
    /\ co[j][s].rec = lockDoc /\ currentLock[i] = lockDoc

\* ------------------------------------------------------------ properties: store failures

AcquirePcs == {"acq_read", "acq_upsert", "acq_create"}

\* C18: a call of acquireLock() or renewLock() that a store error (not 404, 409
\* or 412) answers returns false: after acquireLock() the tick ends with no
\* query, after the renewLock() of the renewal timer the timer is stopped,
\* after the renewLock() of a tick the tick ends; in each case nothing goes
\* to the catch block of tick() (consecutiveErrors and isRunning unchanged),
\* the cached lock stays as it is and nothing is written.
C18_StoreErrorReturnsFalse ==
  [][ \A i \in Inst, s \in {"t1", "t2", "rt"} :
        LET c == co[i][s] IN
        (/\ c.pc \in AcquirePcs \cup {"renew"} /\ c.res = "err"
         /\ co'[i][s] # c)
        => /\ co'[i][s].pc = "idle"
           /\ consecutiveErrors'[i] = consecutiveErrors[i]
           /\ isRunning'[i] = isRunning[i]
           /\ currentLock'[i] = currentLock[i]
           /\ lockDoc' = lockDoc /\ storeSeq' = storeSeq
           /\ s = "rt" => ~renewalIntervalId'[i] ]_vars

\* C18 witness: the takeover upsert of an acquireLock() has been answered with
\* a store error.
C18_Witness ==
  \E i \in Inst, s \in TickSlots :
    /\ co[i][s].pc = "acq_upsert" /\ co[i][s].res = "err"
    /\ consecutiveErrors[i] = 0 /\ isRunning[i]

C20_SurvivesMissedRenewal ==
  [][ \A i \in Inst :
        /\ (/\ co[i]["rt"].pc = "renew" /\ co[i]["rt"].res = "err"
            /\ co'[i]["rt"] # co[i]["rt"])
           => renewalIntervalId'[i]
        /\ (lockDoc.instanceId = i /\ lockDoc'.instanceId \notin {i, "none"})
           => ~(/\ Alive(i) /\ isRunning[i] /\ currentLock[i] = lockDoc
                /\ \A s \in Slots : co[i][s].pc = "idle") ]_vars

\* ------------------------------------------------------------ properties: start and stop

\* Every variable but the count of stop() calls.
allButStopCalls ==
  <<now, lockDoc, storeSeq, faults, ticksLeft, crashed, schedulerEnabled, currentLock,
    renewalIntervalId, renewDue, isRunning, intervalId, consecutiveErrors, lastTickTime,
    startPc, co, searches, queue, qconn, job, lastSched>>

\* C14: stop() called on a running scheduler leaves it not running with the
\* poll timer cancelled and calls releaseLock(): with a lock cached, the renewal
\* timer is stopped and the record is deleted when it still carries the cached
\* etag; whatever the delete answers, the cached lock is cleared and the queue
\* connections are closed next.  stop() called on a scheduler that is not
\* running (called again, never started, start failed) changes nothing.
C14_StopIdempotent ==
  [][ \A i \in Inst :
        LET st == co[i]["st"] IN
        /\ (stopCalls'[i] # stopCalls[i] /\ isRunning[i])
           => /\ ~isRunning'[i] /\ ~intervalId'[i]
              /\ IF currentLock[i] # NoLock
                 THEN /\ co'[i]["st"].pc = "rel" /\ co'[i]["st"].rec = currentLock[i]
                      /\ ~renewalIntervalId'[i]
                 ELSE co'[i]["st"].pc = "close"
        /\ (st.pc = "rel" /\ st.res = "none" /\ co'[i]["st"].res \notin {"none", "err"}
            /\ lockDoc.etag = st.rec.etag)
           => lockDoc' = NoLock
        /\ (st.pc = "rel" /\ co'[i]["st"].pc # "rel")
           => currentLock'[i] = NoLock /\ co'[i]["st"].pc = "close"
        /\ (st.pc = "close" /\ co'[i]["st"] # st)
           => qconn'[i] = ClosedConn /\ co'[i]["st"] = IdleCo
        /\ (stopCalls'[i] # stopCalls[i] /\ ~isRunning[i])
           => allButStopCalls' = allButStopCalls ]_vars

\* C14 witness: a running leader has been stopped (lock record deleted, queue
\* closed), and stop() has been called on it again.
C14_Witness ==
  \E i \in Inst :
    /\ stopCalls[i] = 2 /\ ~isRunning[i] /\ ~intervalId[i]
    /\ lockDoc = NoLock /\ storeSeq >= 2 /\ currentLock[i] = NoLock
    /\ qconn[i] = ClosedConn /\ co[i]["st"] = IdleCo

\* C15: isRunning becomes true only when the initializations of start() have
\* succeeded, and the first tick starts in the same step with the poll timer
\* not armed; the poll timer is armed only when that tick has returned; when an
\* initialization fails, start() ends in failure with isRunning false, no
\* poll timer, no tick started or finished and no lock.
C15_StartOrder ==
  [][ \A i \in Inst :
        /\ (~isRunning[i] /\ isRunning'[i])
           => /\ startPc[i] = "init" /\ startPc'[i] = "tick"
              /\ co'[i]["t1"].pc = "acq_read" /\ co'[i]["t1"].first
              /\ ~intervalId'[i]
        /\ (~intervalId[i] /\ intervalId'[i])
           => /\ startPc[i] = "tick" /\ startPc'[i] = "done"
              /\ co[i]["t1"].first /\ co'[i]["t1"].pc = "idle"
        /\ startPc'[i] = "failed"
           => /\ ~isRunning'[i] /\ ~intervalId'[i] /\ ~renewalIntervalId'[i]
              /\ \A s \in TickSlots : co'[i][s] = IdleCo
              /\ lastTickTime'[i] = -1
              /\ currentLock'[i] = NoLock /\ lockDoc'.instanceId # i ]_vars

\* C15 witness: one instance has started (its first tick has finished and its
\* poll timer is armed), the start() of the other has failed.
C15_Witness ==
  \E i, j \in Inst :
    /\ startPc[i] = "done" /\ isRunning[i] /\ intervalId[i] /\ lastTickTime[i] >= 0
    /\ startPc[j] = "failed" /\ ~isRunning[j]

\* ------------------------------------------------------------ renewal and its version checks

\* The slots in which renewLock() runs: the ticks and the renewal timer callback.
RenewSlots == TickSlots \cup {"rt"}

\* C21: when renewLock() resumes from an upsert that the store answered with a
\* version mismatch (412), that same step clears the cached lock (so that
\* isLockHeld() is false), stops the renewal timer and ends the call, which
\* has returned false to its caller.
C21_MismatchDropsLeadership ==
  [][\A i \in Inst : \A s \in RenewSlots :
       (co[i][s].pc = "renew" /\ co[i][s].res = "412" /\ co'[i][s] # co[i][s])
         => /\ currentLock'[i] = NoLock
            /\ ~isLockHeld(i)'
            /\ ~renewalIntervalId'[i]
            /\ co'[i][s].pc = "idle"]_vars

\* A renewal was answered with a version mismatch while the instance still
\* cached the lock and had its renewal timer armed.
C21_Witness ==
  \E i \in Inst : \E s \in RenewSlots :
    /\ co[i][s].pc = "renew" /\ co[i][s].res = "412"
    /\ currentLock[i] # NoLock /\ renewalIntervalId[i]

\* C25: whenever the store answers a renewLock() upsert with a version mismatch,
\* the stored lock record belongs to another instance at that moment (a renewal
\* of an instance is never refused while the stored record is its own), also
\* when the renewal at the end of a tick and the renewal of the timer callback
\* of the same instance are in flight together.
C25_MismatchMeansTakeover ==
  [][\A i \in Inst : \A s \in RenewSlots :
       (co[i][s].pc = "renew" /\ co[i][s].res = "none" /\ co'[i][s].res = "412")
         => lockDoc.instanceId # i]_vars

\* ------------------------------------------------------------ properties: the tick and its items

\* The read-modify-writes of search x that are in flight: the updateSearch()
\* calls, of ticks and of job processors, that have read the record and have
\* not yet written it back.  Each of them writes the whole record, the
\* schedule included.
InFlightWrites(x) ==
  {<<i, s>> \in Inst \X TickSlots : co[i][s].upd[x] = "write"}
    \cup {<<i, "job">> : i \in {j \in Inst : /\ job[j].pc = "upd_write"
                                             /\ queue[job[j].m].searchId = x}}

\* C22: at any instant at most one read-modify-write that can change the
\* schedule.nextRun of a given search is in flight, over all scheduler
\* instances and job processors.
C22_OneWriterPerItem ==
  \A x \in Items : Cardinality(InFlightWrites(x)) <= 1

\* ------------------------------------------------------------ properties: shutdown

\* C23: a process that has received a shutdown signal exits, whatever calls of
\* worker.stop() stay unanswered; it exits with code 0 only in the step in
\* which worker.stop() resolves (its close() answers, or the worker was not
\* running), and with code 1 only after a signal, by the timeout that is due
\* or by a second signal.
C23_ShutdownTerminates ==
  /\ \A i \in Inst : shutdown[i].inProgress ~> shutdown[i].exitCode # -1
  /\ [][\A i \in Inst :
          (shutdown[i].exitCode = -1 /\ shutdown'[i].exitCode # -1)
            => /\ crashed'[i]
               /\ shutdown'[i].exitCode = 0
                    => \/ shutdown[i].pc = "close"
                       \/ ~shutdown[i].inProgress /\ startPc[i] = "new"
               /\ shutdown'[i].exitCode = 1
                    => /\ shutdown[i].inProgress
                       /\ shutdown[i].timeoutAt >= 0]_vars

\* The process of the leader has exited with code 1 while the release of its
\* lock, called by stop(), was still unanswered.
C23_Witness ==
  \E i \in Inst :
    /\ shutdown[i].exitCode = 1 /\ crashed[i]
    /\ co[i]["st"].pc = "rel" /\ co[i]["st"].res = "none"
    /\ now >= shutdown[i].timeoutAt

\* ------------------------------------------------------------ properties: the URL parser

\* C24: for every criteria object that parseURL() returns, parsing the URL
\* that buildURL() builds from it gives a criteria object that agrees (===)
\* with it on destination, checkIn, checkOut, adults, children, reviewScore
\* and mealPlan.
C24_RoundTrip ==
  roundTrip.pc = "reparsed"
    => \A f \in keyFields :
         StrictEquals(roundTrip.parsedCriteria[f], roundTrip.reparsedCriteria[f])

\* ------------------------------------------------------------ properties: the failure counter

\* C27: the failure counter of a scheduler instance stays between 0 and
\* maxConsecutiveErrors in every reachable state, also when a tick is still
\* in flight while the circuit breaker trips.
C27_CounterBounded ==
  \A i \in Inst : 0 <= consecutiveErrors[i] /\ consecutiveErrors[i] <= maxConsecutiveErrors

\* ------------------------------------------------------------ properties: the steps of a tick

\* The scheduled messages for search x in queue q.
ScheduledFor(q, x) ==
  {k \in 1..Len(q) : q[k].searchId = x /\ q[k].scheduleType = "scheduled"}

\* The positions of a tick between its acquireLock() and its end.
SchedPcs == {"query", "publish", "update"}

\* C26: in a tick the due query has answered before the publish is sent (the
\* step that ends the query changes neither queue nor searches and starts no
\* update), and the updates start only in the step in which the publish has
\* answered, for the searches published; a tick whose query or publish fails
\* starts no update and changes no search; and a search's nextRun or lastRunAt
\* changes only by the update of a tick that returned it from its query and
\* has published a scheduled job for it.
C26_QueryPublishUpdate ==
  [][/\ \A i \in Inst : \A s \in TickSlots :
       LET c == co[i][s]
           d == co'[i][s] IN
       /\ (c.pc = "query" /\ d.pc # "query")
            => /\ queue' = queue /\ searches' = searches
               /\ \A x \in Items : d.upd[x] = "none"
       /\ \A x \in Items :
            (c.upd[x] = "none" /\ d.upd[x] # "none")
              => /\ c.pc = "publish" /\ d.pc = "update"
                 /\ x \in Range(c.due)
                 /\ queue' = queue \o JobMessages(c.due)
       /\ (c.pc \in {"query", "publish"} /\ faults' < faults)
            => /\ searches' = searches
               /\ \A x \in Items : d.upd[x] = "none"
       /\ \A x \in Items :
            (c.upd[x] = "write" /\ searches'[x] # searches[x])
              => /\ x \in Range(c.due)
                 /\ ScheduledFor(queue, x) # {}
     /\ \A x \in Items :
          (\/ searches'[x].nextRun # searches[x].nextRun
           \/ searches'[x].lastRunAt # searches[x].lastRunAt)
            => \E i \in Inst : \E s \in TickSlots :
                 co[i][s].upd[x] = "write" /\ co'[i][s].upd[x] # "write"]_vars

\* A tick has published its due searches and written the update of one of
\* them, while another search, not due, is left alone.
C26_Witness ==
  \E i \in Inst : \E x, y \in Items :
    /\ co[i]["t1"].upd[x] = "done" /\ co[i]["t1"].upd[y] = "none"
    /\ searches[y].exists /\ searches[y].lastRunAt = -1
    /\ searches[x].lastRunAt = co[i]["t1"].sched
    /\ ScheduledFor(queue, x) # {} /\ ScheduledFor(queue, y) = {}

\* In slot s of instance i a tick that holds the lock throws in this step.
TickThrows(i, s) ==
  /\ co[i][s].pc \in SchedPcs
  /\ faults' < faults

\* In slot s of instance i a tick that holds the lock ends without exception
\* in this step: nothing was due, or its last update was written.
TickFinishes(i, s) ==
  /\ co[i][s].pc \in {"query", "update"}
  /\ co'[i][s].pc \in {"renew", "idle"}
  /\ faults' = faults

\* C28: a tick that holds the lock and ends without exception sets the
\* failure counter to 0, with or without due searches; a tick that throws
\* after acquiring the lock adds exactly 1; the renewLock() that follows a tick,
\* whatever it returns, and every other step of a running scheduler leave the
\* counter as it is.
C28_CounterSteps ==
  [][\A i \in Inst :
       /\ \A s \in TickSlots :
            /\ TickFinishes(i, s) => consecutiveErrors'[i] = 0
            /\ TickThrows(i, s) => consecutiveErrors'[i] = consecutiveErrors[i] + 1
       /\ (isRunning[i] /\ consecutiveErrors'[i] # consecutiveErrors[i])
            => \E s \in TickSlots : TickFinishes(i, s) \/ TickThrows(i, s)]_vars

\* A tick failed on the update of a search it had published; a later tick
\* has published the search again, written its update and ended without
\* exception: the counter is 0, and the renewLock() that follows fails.
C28_Witness ==
  \E i \in Inst :
    /\ consecutiveErrors[i] = 0 /\ isRunning[i]
    /\ co[i]["t1"].pc = "renew" /\ co[i]["t1"].res = "err"
    /\ \E x \in Items : /\ co[i]["t1"].upd[x] = "done"
                        /\ Cardinality(ScheduledFor(queue, x)) = 2

\* C29: when an updateSearch() of a tick fails, no search changes in that step
\* (the updates already written stay written, the failed search keeps its
\* nextRun), the tick counts one failure however many of its updates fail;
\* and the next tick whose query answers returns every search that has a
\* scheduled job in the queue and is still due, and its publish adds one more
\* job for it.
C29_NoRollback ==
  [][\A i \in Inst : \A s \in TickSlots :
       LET c == co[i][s]
           d == co'[i][s] IN
       /\ \A x \in Items :
            (c.upd[x] \in {"read", "write"} /\ d.upd[x] \notin {"read", "write"}
             /\ faults' < faults)
              => /\ searches' = searches
                 /\ consecutiveErrors'[i] =
                      consecutiveErrors[i] + (IF c.pc = "update" THEN 1 ELSE 0)
       /\ (c.pc = "query" /\ d.pc # "query" /\ faults' = faults)
            => \A x \in Items :
                 (ScheduledFor(queue, x) # {} /\ IsDue(searches[x], c.now))
                   => d.pc = "publish" /\ x \in Range(d.due)
       /\ (c.pc = "publish" /\ d.pc = "update")
            => \A x \in Range(c.due) :
                 Cardinality(ScheduledFor(queue', x)) = Cardinality(ScheduledFor(queue, x)) + 1
     ]_vars

\* A tick updated one search and failed on the other; a later tick has
\* published the other search again: its record is still past due, two
\* scheduled jobs for it are in the queue, and the first search keeps its
\* advanced nextRun.
C29_Witness ==
  \E i \in Inst : \E x, y \in Items :
    /\ x # y
    /\ Cardinality(ScheduledFor(queue, x)) = 2
    /\ Cardinality(ScheduledFor(queue, y)) = 1
    /\ searches[x].nextRun < 0 /\ searches[x].lastRunAt = -1
    /\ searches[y].nextRun > 0
    /\ co[i]["t1"].pc = "update" /\ co[i]["t1"].due = <<x>>

\* What C30 says of a result q of the due query at time t with limit n.
SmallestDue(q, t, n) ==
  /\ Len(q) = Min(n, Cardinality(DueSet(t)))
  /\ \A a \in 1..Len(q) : IsDue(searches[q[a]], t)
  /\ \A a, b \in 1..Len(q) : a < b => q[a] # q[b]
  /\ \A a, b \in 1..Len(q) : a < b => searches[q[a]].nextRun <= searches[q[b]].nextRun
  /\ \A x \in DueSet(t) \ Range(q) :
       \A a \in 1..Len(q) : searches[q[a]].nextRun <= searches[x].nextRun

\* C30: what a tick's due query returns, and its publish then sends in that
\* order, is the due searches (active, schedule enabled, nextRun <= now) with
\* the smallest nextRun, at most `limit` of them, in ascending order of
\* nextRun; the same holds of the query for every smaller limit.
C30_SmallestDueFirst ==
  [][\A i \in Inst : \A s \in TickSlots :
       LET c == co[i][s]
           d == co'[i][s] IN
       /\ (c.pc = "query" /\ d.pc # "query" /\ faults' = faults)
            => /\ SmallestDue(d.due, c.now, DueLimit)
               /\ Len(d.due) <= DueLimit
               /\ \A n \in 0..Cardinality(Items) :
                    /\ getDueSearches(c.now, n) # {}
                    /\ \A q \in getDueSearches(c.now, n) : SmallestDue(q, c.now, n)
       /\ (c.pc = "publish" /\ d.pc = "update")
            => /\ Len(queue') = Len(queue) + Len(c.due)
               /\ \A k \in 1..Len(c.due) : queue'[Len(queue) + k].searchId = c.due[k]]_vars

\* A tick has published two due searches with different nextRun, the one due
\* for longer first.
C30_Witness ==
  \E i \in Inst :
    /\ co[i]["t1"].pc = "update" /\ Len(co[i]["t1"].due) = 2
    /\ co[i]["t1"].snap[co[i]["t1"].due[1]].nextRun < co[i]["t1"].snap[co[i]["t1"].due[2]].nextRun
    /\ Len(queue) >= 2
    /\ queue[Len(queue) - 1].searchId = co[i]["t1"].due[1]
    /\ queue[Len(queue)].searchId = co[i]["t1"].due[2]

\* ------------------------------------------------------------ Handover of the lock

\* The call of instance i in slot s whose store request succeeds in this step.
StoreWriteBy(i, s) == co[i][s].res = "none" /\ co'[i][s].res = "ok"

\* C31: the stored lock record passes from one instance to another only when
\* the old record had expired (expiresAt < now) or its holder had deleted it:
\* a record that is not expired is changed or deleted only by a call of its
\* holder and stays the holder's or is gone, a record is deleted only by a call
\* of its holder, and a record whose holder changes in one write had expired.
C31_HandoverAfterExpiryOrRelease ==
  [][ /\ (lockDoc # NoLock /\ lockDoc' # lockDoc /\ ~(lockDoc.expiresAt < now))
         => /\ \E s \in Slots : StoreWriteBy(lockDoc.instanceId, s)
            /\ lockDoc' = NoLock \/ lockDoc'.instanceId = lockDoc.instanceId
      /\ (lockDoc # NoLock /\ lockDoc' = NoLock)
         => \E s \in Slots : StoreWriteBy(lockDoc.instanceId, s) /\ co[lockDoc.instanceId][s].pc = "rel"
      /\ (lockDoc # NoLock /\ lockDoc' # NoLock /\ lockDoc'.instanceId # lockDoc.instanceId)
         => /\ lockDoc.expiresAt < now
            /\ lockDoc'.from = lockDoc.instanceId /\ lockDoc'.prev = lockDoc.etag ]_vars

\* C31 witness: instance B holds the record it took over from A, whose expired
\* record it replaced, and a later renewal of A has been refused (412).
C31_Witness ==
  /\ lockDoc.instanceId = "B" /\ lockDoc.from = "A"
  /\ \E s \in RenewSlots : co["A"][s].pc = "renew" /\ co["A"][s].res = "412"

\* ------------------------------------------------------------ Overlapping ticks

\* C32: two ticks of one instance are never in the scheduling part (due-item
\* query, publish, next-run updates) together.
C32_TicksDoNotOverlap ==
  \A i \in Inst : \A s, t \in TickSlots :
     (s # t /\ co[i][s].pc \in SchedPcs) => co[i][t].pc \notin SchedPcs

\* Its consequence: no item has been published by two ticks of one instance
\* that are both before the end of their next-run updates.
NoDoublePublish ==
  \A i \in Inst : \A x \in Items :
     ~(\A s \in TickSlots :
          /\ co[i][s].pc = "update"
          /\ \E k \in 1..Len(co[i][s].due) : co[i][s].due[k] = x)

\* ------------------------------------------------------------ Poll timer of a stopped scheduler

\* C33: while the scheduler is not running and neither start() nor a tick is
\* in progress, no poll timer is armed.
C33_StoppedMeansNoTimer ==
  \A i \in Inst :
     (/\ ~isRunning[i]
      /\ startPc[i] \notin {"init", "tick"}
      /\ \A s \in TickSlots : co[i][s].pc = "idle")
     => ~intervalId[i]

\* ------------------------------------------------------------ Leadership after stop()

\* stop() of instance i has run its body and returned: the queue connections
\* are closed (only stop() closes them) and no stop() is in progress.
StopReturned(i) == qconn[i] = ClosedConn /\ co[i]["st"].pc = "idle"

\* C34: once stop() has returned, no store call having failed, the instance
\* has no cached lock, its renewal timer is stopped and the store holds no
\* unexpired lock record of the instance.
C34_NoLeadershipAfterStop ==
  \A i \in Inst :
     (StopReturned(i) /\ faults = MaxFaults)
     => /\ currentLock[i] = NoLock
        /\ ~renewalIntervalId[i]
        /\ ~(lockDoc.instanceId = i /\ ~isExpired(lockDoc, now))

\* ------------------------------------------------------------ Settlement of a delivery

\* C35: for every delivery that processMessage has finished, exactly one
\* settlement call (completeMessage or abandonMessage) has been made.
C35_SettledExactlyOnce ==
  \A k \in 1..Len(queue) :
     queue[k].settled # {} => Cardinality(queue[k].settled) = 1

\* ------------------------------------------------------------ Monotonic next run

\* C36: no write of a search document lowers its schedule.nextRun.
C36_NextRunNeverDecreases ==
  [][ \A x \in Items :
        (searches[x].exists /\ searches'[x].exists)
        => searches'[x].nextRun >= searches[x].nextRun ]_vars

\* ------------------------------------------------------------ Renewal timer of a leader

\* C37: when the acquireLock() of a tick returns true (the tick goes on to its
\* due-item query), the renewal timer of the instance is armed.
C37_LeaderHasRenewalTimer ==
  [][ \A i \in Inst, s \in TickSlots :
        (co[i][s].pc \in {"acq_read", "acq_upsert", "acq_create"} /\ co'[i][s].pc = "query")
        => renewalIntervalId'[i] /\ currentLock'[i] # NoLock ]_vars

\* ------------------------------------------------------------ Local belief and the store

\* C38: whenever isLockHeld() is true on an instance, the stored lock record
\* exists, is not expired and names that instance as holder; hence
\* isLockHeld() is never true on two instances at once.
C38_BeliefIsSound ==
  /\ \A i \in Inst :
        isLockHeld(i) => /\ lockDoc # NoLock
                         /\ ~isExpired(lockDoc, now)
                         /\ lockDoc.instanceId = i
  /\ \A i, j \in Inst : (isLockHeld(i) /\ isLockHeld(j)) => i = j

\* The same with the calls of releaseLock() taken as instantaneous: the
\* instances that await the answer of a delete are left out.
BeliefIsSoundOutsideRelease ==
  \A i \in Inst :
     (isLockHeld(i) /\ \A s \in Slots : co[i][s].pc # "rel")
     => /\ lockDoc # NoLock
        /\ ~isExpired(lockDoc, now)
        /\ lockDoc.instanceId = i

\* ------------------------------------------------------------ No starvation

\* A tick has just published the job of search x and is in its updates.
JustPublished(x) ==
  \E i \in Inst, s \in TickSlots :
     /\ co[i][s].pc = "update" /\ x \in Range(co[i][s].due)
     /\ \E k \in 1..Len(queue) : queue[k].searchId = x /\ queue[k].scheduleType = "scheduled"

\* C39: while the scheduler of an instance keeps running and the calls of the
\* store and the queue fail only finitely often, every search that is due is
\* published by a later tick, also when more searches are due than one due
\* query returns.
C39_NoStarvation ==
  \A x \in Items : (x \in DueSet(now)) ~> JustPublished(x)

\* C39 witness: both searches were due, the due query of a tick returned only
\* the older one, and a later tick has published the other.
C39_Witness ==
  /\ lastSched["s2"].ih > 0
  /\ co["A"]["t1"].pc = "update" /\ co["A"]["t1"].due = <<"s1">>
  /\ ScheduledFor(queue, "s1") # {} /\ ScheduledFor(queue, "s2") # {}

====
